---- MODULE Spec2Model ----
\* Procedural state machines of polish-constitution-as-code and the voting
\* arithmetic they share:
\*   konstytucja/common/voting.py               check_quorum, check_majority, passes_vote
\*   konstytucja/legislative_process.py         LegislativeProcess   (Art. 118-122)
\*   konstytucja/chapter_06_council_of_ministers.py  GovernmentFormation (Art. 154-155)
\*   konstytucja/chapter_12_amendments.py       AmendmentProcess     (Art. 235)
\*
\* A run is one caller constructing one process instance and driving it by
\* method calls.  `cls` is the class of the instance ("None" before
\* construction), `self` is the instance as a record of its dataclass fields,
\* `call` is the last call made and `raised` the exception it ended with
\* ("none" when it returned); `message` is what that exception says when it is
\* a process error (an illegal transition, a refused construction).  `visited`
\* is a history variable of the model, not of the program: the stages the
\* instance has been in, in order.
\*
\* Where a caller holds two instances at once (PairSpec) they are `objs`, and
\* `heap` holds the list objects their fields refer to.
\* Where the caller calls the functions of voting.py on their own (VotingSpec)
\* there is no instance, and `call` and `raised` are the function called and
\* how it ended.
\*
\* A method is modelled as an operator from the instance (and the arguments) to
\* Ret(instance after the call, exception raised); the action of the method
\* applies it.  Exceptions are their class names.  An `assert` that fails raises
\* AssertionError, as the interpreter does unless run with -O.
EXTENDS Integers, Sequences, FiniteSets, TLC

VARIABLES cls, self, call, raised, visited, message, objs, heap

vars == <<cls, self, call, raised, visited, message, objs, heap>>

\* ---------------------------------------------------------------- bounds

\* Longest history a LegislativeProcess is driven to (its stage graph has
\* cycles, so the log is unbounded in the program).
MaxHistory == 9

\* Longest history of a bill driven through a return to the Sejm and a whole
\* second pass (SecondPassSpec): 8 entries up to the return, 6 more to ENACTED,
\* or 7 more to a second return.
MaxSecondPassHistory == 15

\* ------------------------------------------------- common/types.py (VoteRecord)

SEJM_MEMBERS == 460

SENATE_MEMBERS == 100

VoteRecord(chamber, votes_for, votes_against, votes_abstain) ==
    [chamber |-> chamber, votes_for |-> votes_for,
     votes_against |-> votes_against, votes_abstain |-> votes_abstain]

members(vote) ==
    IF vote.chamber = "SEJM" THEN SEJM_MEMBERS ELSE SENATE_MEMBERS

total_present(vote) ==
    vote.votes_for + vote.votes_against + vote.votes_abstain

\* The tallies the caller passes.  Per chamber there is a tally on each side of
\* the quorum and of every majority kind the machines ask for:
\*   Sejm (460)   250/180/10  SIMPLE, ABSOLUTE; not TWO_THIRDS, not THREE_FIFTHS
\*                280/160/20  THREE_FIFTHS; not TWO_THIRDS
\*                307/153/0   every kind
\*                200/30/0    quorum exactly met; TWO_THIRDS of those present; not ABSOLUTE
\*                230/200/0   SIMPLE; not ABSOLUTE (exactly half the chamber)
\*                150/200/80  no kind
\*                220/220/20  no kind (a tie)
\*                200/29/0    no quorum (229 present), though 200 of 229 are for
\*   Senate (100) 55/40/5     SIMPLE, ABSOLUTE
\*                50/0/0      quorum exactly met; SIMPLE; not ABSOLUTE
\*                40/55/5     no kind
\*                30/10/0     no quorum
SejmTallies ==
    { VoteRecord("SEJM", t[1], t[2], t[3]) :
        t \in { <<250, 180, 10>>, <<280, 160, 20>>, <<307, 153, 0>>,
                <<200, 30, 0>>,   <<230, 200, 0>>,  <<150, 200, 80>>,
                <<220, 220, 20>>, <<200, 29, 0>> } }

SenateTallies ==
    { VoteRecord("SENATE", t[1], t[2], t[3]) :
        t \in { <<55, 40, 5>>, <<50, 0, 0>>, <<40, 55, 5>>, <<30, 10, 0>> } }

Tallies == SejmTallies \cup SenateTallies

\* ------------------------------------------------------- common/voting.py

\* Mutant: a quorum needs two thirds of the statutory members.
check_quorum_two_thirds(vote) ==
    IF total_present(vote) * 3 < members(vote) * 2 THEN "QuorumError" ELSE "none"

\* Mutant: a quorum needs more than half of the statutory members.
check_quorum_more_than_half(vote) ==
    IF total_present(vote) * 2 <= members(vote) THEN "QuorumError" ELSE "none"

\* Mutant: a SIMPLE majority counts abstentions with the votes against.
check_majority_abstentions_against(vote, majority_type) ==
    CASE majority_type = "SIMPLE" ->
            IF vote.votes_for > vote.votes_against + vote.votes_abstain
            THEN "none" ELSE "MajorityError"
      [] majority_type = "ABSOLUTE" ->
            IF vote.votes_for * 2 > members(vote) THEN "none" ELSE "MajorityError"
      [] majority_type = "TWO_THIRDS" ->
            IF vote.votes_for * 3 >= total_present(vote) * 2
            THEN "none" ELSE "MajorityError"
      [] majority_type = "THREE_FIFTHS" ->
            IF vote.votes_for * 5 >= total_present(vote) * 3
            THEN "none" ELSE "MajorityError"

\* Mutant: an ABSOLUTE majority is measured against the members present.
check_majority_absolute_of_present(vote, majority_type) ==
    CASE majority_type = "SIMPLE" ->
            IF vote.votes_for > vote.votes_against THEN "none" ELSE "MajorityError"
      [] majority_type = "ABSOLUTE" ->
            IF vote.votes_for * 2 > total_present(vote) THEN "none" ELSE "MajorityError"
      [] majority_type = "TWO_THIRDS" ->
            IF vote.votes_for * 3 >= total_present(vote) * 2
            THEN "none" ELSE "MajorityError"
      [] majority_type = "THREE_FIFTHS" ->
            IF vote.votes_for * 5 >= total_present(vote) * 3
            THEN "none" ELSE "MajorityError"

\* Mutant: TWO_THIRDS needs more than two thirds of the members present.
check_majority_two_thirds_strict(vote, majority_type) ==
    CASE majority_type = "SIMPLE" ->
            IF vote.votes_for > vote.votes_against THEN "none" ELSE "MajorityError"
      [] majority_type = "ABSOLUTE" ->
            IF vote.votes_for * 2 > members(vote) THEN "none" ELSE "MajorityError"
      [] majority_type = "TWO_THIRDS" ->
            IF vote.votes_for * 3 > total_present(vote) * 2
            THEN "none" ELSE "MajorityError"
      [] majority_type = "THREE_FIFTHS" ->
            IF vote.votes_for * 5 >= total_present(vote) * 3
            THEN "none" ELSE "MajorityError"

\* Mutant: THREE_FIFTHS is measured against the statutory members.
check_majority_three_fifths_of_members(vote, majority_type) ==
    CASE majority_type = "SIMPLE" ->
            IF vote.votes_for > vote.votes_against THEN "none" ELSE "MajorityError"
      [] majority_type = "ABSOLUTE" ->
            IF vote.votes_for * 2 > members(vote) THEN "none" ELSE "MajorityError"
      [] majority_type = "TWO_THIRDS" ->
            IF vote.votes_for * 3 >= total_present(vote) * 2
            THEN "none" ELSE "MajorityError"
      [] majority_type = "THREE_FIFTHS" ->
            IF vote.votes_for * 5 >= members(vote) * 3
            THEN "none" ELSE "MajorityError"

check_quorum(vote) ==
    IF total_present(vote) * 2 < members(vote) THEN "QuorumError" ELSE "none"

check_majority(vote, majority_type) ==
    CASE majority_type = "SIMPLE" ->
            IF vote.votes_for > vote.votes_against THEN "none" ELSE "MajorityError"
      [] majority_type = "ABSOLUTE" ->
            IF vote.votes_for * 2 > members(vote) THEN "none" ELSE "MajorityError"
      [] majority_type = "TWO_THIRDS" ->
            IF vote.votes_for * 3 >= total_present(vote) * 2
            THEN "none" ELSE "MajorityError"
      [] majority_type = "THREE_FIFTHS" ->
            IF vote.votes_for * 5 >= total_present(vote) * 3
            THEN "none" ELSE "MajorityError"

\* Mutant: the quorum is not checked, whatever require_quorum says.
passes_vote_quorum_never(vote, majority_type, require_quorum) ==
    check_majority(vote, majority_type)

\* Mutant: the majority is checked before the quorum.
passes_vote_majority_first(vote, majority_type, require_quorum) ==
    IF check_majority(vote, majority_type) # "none"
    THEN check_majority(vote, majority_type)
    ELSE IF require_quorum THEN check_quorum(vote) ELSE "none"

passes_vote(vote, majority_type, require_quorum) ==
    IF require_quorum /\ check_quorum(vote) # "none"
    THEN check_quorum(vote)
    ELSE check_majority(vote, majority_type)

\* What a process error says is modelled by the values its message is
\* formatted with; the text of every other exception is not modelled.
NoMessage == [text |-> "not modelled"]

\* What a method call ends with: the instance after it, the exception, and
\* what the exception says.
Raise(obj, exc, msg) == [self |-> obj, raised |-> exc, message |-> msg]

Ret(obj, exc) == Raise(obj, exc, NoMessage)

\* ------------------------------------------------- legislative_process.py

\* LegislativeProcess(bill=...) with the default stage and a fresh history.
LegislativeProcess == [stage |-> "INITIATED", history |-> <<>>]

\* One history entry, f"{from} -> {to}: {note}"; `args` are the numbers the
\* note is formatted with.
HistoryEntry(from, to, note, args) ==
    [from |-> from, to |-> to, note |-> note, args |-> args]

\* Mutant: the two statements of _transition swapped, so the entry is
\* formatted after the stage was assigned.
LP_transition_stage_first(obj, new_stage, note, args) ==
    [obj EXCEPT !.history = Append(@, HistoryEntry(new_stage, new_stage, note, args)),
                !.stage = new_stage]

LP_transition(obj, new_stage, note, args) ==
    [obj EXCEPT !.history = Append(@, HistoryEntry(obj.stage, new_stage, note, args)),
                !.stage = new_stage]

\* Mutant: the stage check never raises.
LP_require_stage_unchecked(obj, expected) == "none"

LP_require_stage(obj, expected) ==
    IF obj.stage \notin expected THEN "LegislativeProcessError" ELSE "none"

\* Mutant: the error names the stage the bill is at and nothing else.
LP_require_stage_message_actual_only(obj, expected) == [actual |-> obj.stage]

\* f"Cannot proceed: bill is at {self.stage.name}, expected {expected_names}"
LP_require_stage_message(obj, expected) ==
    [actual |-> obj.stage, expected |-> expected]

\* Mutant: a rejected bill may start its readings again.
LP_begin_sejm_deliberation_again(obj) ==
    IF LP_require_stage(obj, {"INITIATED", "REJECTED"}) # "none"
    THEN Raise(obj, LP_require_stage(obj, {"INITIATED", "REJECTED"}),
               LP_require_stage_message(obj, {"INITIATED", "REJECTED"}))
    ELSE Ret(LP_transition(obj, "SEJM_DELIBERATION", "Three readings begin", <<>>), "none")

LP_begin_sejm_deliberation(obj) ==
    IF LP_require_stage(obj, {"INITIATED"}) # "none"
    THEN Raise(obj, LP_require_stage(obj, {"INITIATED"}),
               LP_require_stage_message(obj, {"INITIATED"}))
    ELSE Ret(LP_transition(obj, "SEJM_DELIBERATION", "Three readings begin", <<>>), "none")

\* Mutant: the vote is taken without the quorum check.
LP_sejm_vote_no_quorum(obj, vote) ==
    IF LP_require_stage(obj, {"SEJM_DELIBERATION"}) # "none"
    THEN Raise(obj, LP_require_stage(obj, {"SEJM_DELIBERATION"}),
               LP_require_stage_message(obj, {"SEJM_DELIBERATION"}))
    ELSE IF vote.chamber # "SEJM" THEN Ret(obj, "AssertionError")
    ELSE IF passes_vote(vote, "SIMPLE", FALSE) # "none"
    THEN Ret(LP_transition(obj, "REJECTED", "Sejm rejected", <<>>),
             passes_vote(vote, "SIMPLE", FALSE))
    ELSE Ret(LP_transition(obj, "SEJM_PASSED", "Passed",
                           <<vote.votes_for, vote.votes_against>>), "none")

\* Mutant: the tally is put to the vote whichever chamber it comes from.
LP_sejm_vote_any_chamber(obj, vote) ==
    IF LP_require_stage(obj, {"SEJM_DELIBERATION"}) # "none"
    THEN Raise(obj, LP_require_stage(obj, {"SEJM_DELIBERATION"}),
               LP_require_stage_message(obj, {"SEJM_DELIBERATION"}))
    ELSE IF passes_vote(vote, "SIMPLE", TRUE) # "none"
    THEN Ret(LP_transition(obj, "REJECTED", "Sejm rejected", <<>>),
             passes_vote(vote, "SIMPLE", TRUE))
    ELSE Ret(LP_transition(obj, "SEJM_PASSED", "Passed",
                           <<vote.votes_for, vote.votes_against>>), "none")

LP_sejm_vote(obj, vote) ==
    IF LP_require_stage(obj, {"SEJM_DELIBERATION"}) # "none"
    THEN Raise(obj, LP_require_stage(obj, {"SEJM_DELIBERATION"}),
               LP_require_stage_message(obj, {"SEJM_DELIBERATION"}))
    ELSE IF vote.chamber # "SEJM" THEN Ret(obj, "AssertionError")
    ELSE IF passes_vote(vote, "SIMPLE", TRUE) # "none"
    THEN Ret(LP_transition(obj, "REJECTED", "Sejm rejected", <<>>),
             passes_vote(vote, "SIMPLE", TRUE))
    ELSE Ret(LP_transition(obj, "SEJM_PASSED", "Passed",
                           <<vote.votes_for, vote.votes_against>>), "none")

LP_send_to_senate(obj) ==
    IF LP_require_stage(obj, {"SEJM_PASSED"}) # "none"
    THEN Raise(obj, LP_require_stage(obj, {"SEJM_PASSED"}),
               LP_require_stage_message(obj, {"SEJM_PASSED"}))
    ELSE Ret(LP_transition(obj, "SENATE_DELIBERATION", "Sent to Senate", <<>>), "none")

LP_senate_accepts(obj) ==
    IF LP_require_stage(obj, {"SENATE_DELIBERATION"}) # "none"
    THEN Raise(obj, LP_require_stage(obj, {"SENATE_DELIBERATION"}),
               LP_require_stage_message(obj, {"SENATE_DELIBERATION"}))
    ELSE Ret(LP_transition(obj, "SENATE_PASSED", "Senate accepted without changes", <<>>),
             "none")

LP_senate_amends(obj, vote) ==
    IF LP_require_stage(obj, {"SENATE_DELIBERATION"}) # "none"
    THEN Raise(obj, LP_require_stage(obj, {"SENATE_DELIBERATION"}),
               LP_require_stage_message(obj, {"SENATE_DELIBERATION"}))
    ELSE IF vote.chamber # "SENATE" THEN Ret(obj, "AssertionError")
    ELSE IF passes_vote(vote, "SIMPLE", TRUE) # "none"
    THEN Ret(obj, passes_vote(vote, "SIMPLE", TRUE))
    ELSE Ret(LP_transition(obj, "SENATE_AMENDED", "Senate proposed amendments", <<>>),
             "none")

\* Mutant: a failed rejection vote ends the bill, as a failed Sejm vote does.
LP_senate_rejects_ends_bill(obj, vote) ==
    IF LP_require_stage(obj, {"SENATE_DELIBERATION"}) # "none"
    THEN Raise(obj, LP_require_stage(obj, {"SENATE_DELIBERATION"}),
               LP_require_stage_message(obj, {"SENATE_DELIBERATION"}))
    ELSE IF vote.chamber # "SENATE" THEN Ret(obj, "AssertionError")
    ELSE IF passes_vote(vote, "SIMPLE", TRUE) # "none"
    THEN Ret(LP_transition(obj, "REJECTED", "Senate vote failed", <<>>),
             passes_vote(vote, "SIMPLE", TRUE))
    ELSE Ret(LP_transition(obj, "SENATE_REJECTED", "Senate rejected", <<>>), "none")

LP_senate_rejects(obj, vote) ==
    IF LP_require_stage(obj, {"SENATE_DELIBERATION"}) # "none"
    THEN Raise(obj, LP_require_stage(obj, {"SENATE_DELIBERATION"}),
               LP_require_stage_message(obj, {"SENATE_DELIBERATION"}))
    ELSE IF vote.chamber # "SENATE" THEN Ret(obj, "AssertionError")
    ELSE IF passes_vote(vote, "SIMPLE", TRUE) # "none"
    THEN Ret(obj, passes_vote(vote, "SIMPLE", TRUE))
    ELSE Ret(LP_transition(obj, "SENATE_REJECTED", "Senate rejected", <<>>), "none")

\* Mutant: a failed override sends the bill back to the Senate.
LP_sejm_override_senate_back_to_senate(obj, vote) ==
    IF LP_require_stage(obj, {"SENATE_AMENDED", "SENATE_REJECTED"}) # "none"
    THEN Raise(obj, LP_require_stage(obj, {"SENATE_AMENDED", "SENATE_REJECTED"}),
               LP_require_stage_message(obj, {"SENATE_AMENDED", "SENATE_REJECTED"}))
    ELSE IF vote.chamber # "SEJM" THEN Ret(obj, "AssertionError")
    ELSE IF passes_vote(vote, "ABSOLUTE", TRUE) # "none"
    THEN Ret(LP_transition(obj, "SENATE_DELIBERATION", "Sejm failed to override Senate",
                           <<>>),
             passes_vote(vote, "ABSOLUTE", TRUE))
    ELSE Ret(LP_transition(obj, "SEJM_OVERRIDE_VOTE", "Sejm overrode Senate", <<>>),
             "none")

LP_sejm_override_senate(obj, vote) ==
    IF LP_require_stage(obj, {"SENATE_AMENDED", "SENATE_REJECTED"}) # "none"
    THEN Raise(obj, LP_require_stage(obj, {"SENATE_AMENDED", "SENATE_REJECTED"}),
               LP_require_stage_message(obj, {"SENATE_AMENDED", "SENATE_REJECTED"}))
    ELSE IF vote.chamber # "SEJM" THEN Ret(obj, "AssertionError")
    ELSE IF passes_vote(vote, "ABSOLUTE", TRUE) # "none"
    THEN Ret(LP_transition(obj, "REJECTED", "Sejm failed to override Senate", <<>>),
             passes_vote(vote, "ABSOLUTE", TRUE))
    ELSE Ret(LP_transition(obj, "SEJM_OVERRIDE_VOTE", "Sejm overrode Senate", <<>>),
             "none")

\* Mutant: a bill the Senate amended may go to the President as it is.
LP_send_to_president_amended(obj) ==
    IF LP_require_stage(obj, {"SENATE_PASSED", "SEJM_OVERRIDE_VOTE", "SENATE_AMENDED"})
         # "none"
    THEN Raise(obj, LP_require_stage(obj, {"SENATE_PASSED", "SEJM_OVERRIDE_VOTE", "SENATE_AMENDED"}),
               LP_require_stage_message(obj, {"SENATE_PASSED", "SEJM_OVERRIDE_VOTE", "SENATE_AMENDED"}))
    ELSE Ret(LP_transition(obj, "PRESIDENT_REVIEW", "Sent to President", <<>>), "none")

LP_send_to_president(obj) ==
    IF LP_require_stage(obj, {"SENATE_PASSED", "SEJM_OVERRIDE_VOTE"}) # "none"
    THEN Raise(obj, LP_require_stage(obj, {"SENATE_PASSED", "SEJM_OVERRIDE_VOTE"}),
               LP_require_stage_message(obj, {"SENATE_PASSED", "SEJM_OVERRIDE_VOTE"}))
    ELSE Ret(LP_transition(obj, "PRESIDENT_REVIEW", "Sent to President", <<>>), "none")

LP_president_signs(obj) ==
    IF LP_require_stage(obj, {"PRESIDENT_REVIEW"}) # "none"
    THEN Raise(obj, LP_require_stage(obj, {"PRESIDENT_REVIEW"}),
               LP_require_stage_message(obj, {"PRESIDENT_REVIEW"}))
    ELSE Ret(LP_transition(obj, "SIGNED", "President signed", <<>>), "none")

LP_president_vetoes(obj) ==
    IF LP_require_stage(obj, {"PRESIDENT_REVIEW"}) # "none"
    THEN Raise(obj, LP_require_stage(obj, {"PRESIDENT_REVIEW"}),
               LP_require_stage_message(obj, {"PRESIDENT_REVIEW"}))
    ELSE Ret(LP_transition(obj, "VETOED", "President vetoed", <<>>), "none")

LP_president_refers_to_tribunal(obj) ==
    IF LP_require_stage(obj, {"PRESIDENT_REVIEW"}) # "none"
    THEN Raise(obj, LP_require_stage(obj, {"PRESIDENT_REVIEW"}),
               LP_require_stage_message(obj, {"PRESIDENT_REVIEW"}))
    ELSE Ret(LP_transition(obj, "REFERRED_TO_TRIBUNAL", "Referred to Tribunal", <<>>),
             "none")

LP_tribunal_rules_constitutional(obj) ==
    IF LP_require_stage(obj, {"REFERRED_TO_TRIBUNAL"}) # "none"
    THEN Raise(obj, LP_require_stage(obj, {"REFERRED_TO_TRIBUNAL"}),
               LP_require_stage_message(obj, {"REFERRED_TO_TRIBUNAL"}))
    ELSE Ret(LP_transition(obj, "PRESIDENT_REVIEW",
                           "Tribunal: constitutional - returns to President", <<>>),
             "none")

\* Mutant: the stage is assigned directly, as AmendmentProcess does, without
\* going through _transition.
LP_tribunal_rules_unconstitutional_direct(obj) ==
    IF LP_require_stage(obj, {"REFERRED_TO_TRIBUNAL"}) # "none"
    THEN Raise(obj, LP_require_stage(obj, {"REFERRED_TO_TRIBUNAL"}),
               LP_require_stage_message(obj, {"REFERRED_TO_TRIBUNAL"}))
    ELSE Ret([obj EXCEPT !.stage = "REJECTED"], "none")

LP_tribunal_rules_unconstitutional(obj) ==
    IF LP_require_stage(obj, {"REFERRED_TO_TRIBUNAL"}) # "none"
    THEN Raise(obj, LP_require_stage(obj, {"REFERRED_TO_TRIBUNAL"}),
               LP_require_stage_message(obj, {"REFERRED_TO_TRIBUNAL"}))
    ELSE Ret(LP_transition(obj, "REJECTED",
                           "Tribunal: unconstitutional - President refuses signature",
                           <<>>),
             "none")

LP_tribunal_rules_partially_unconstitutional(obj) ==
    IF LP_require_stage(obj, {"REFERRED_TO_TRIBUNAL"}) # "none"
    THEN Raise(obj, LP_require_stage(obj, {"REFERRED_TO_TRIBUNAL"}),
               LP_require_stage_message(obj, {"REFERRED_TO_TRIBUNAL"}))
    ELSE Ret(LP_transition(obj, "PARTIALLY_UNCONSTITUTIONAL",
                           "Tribunal: partially unconstitutional - President decides",
                           <<>>),
             "none")

\* Mutant: the President may sign with exclusions before the Tribunal has ruled.
LP_president_signs_with_exclusions_unruled(obj) ==
    IF LP_require_stage(obj, {"REFERRED_TO_TRIBUNAL", "PARTIALLY_UNCONSTITUTIONAL"}) # "none"
    THEN Raise(obj,
               LP_require_stage(obj, {"REFERRED_TO_TRIBUNAL", "PARTIALLY_UNCONSTITUTIONAL"}),
               LP_require_stage_message(obj, {"REFERRED_TO_TRIBUNAL",
                                              "PARTIALLY_UNCONSTITUTIONAL"}))
    ELSE Ret(LP_transition(obj, "SIGNED",
                           "President signed with exclusion of unconstitutional provisions",
                           <<>>),
             "none")

LP_president_signs_with_exclusions(obj) ==
    IF LP_require_stage(obj, {"PARTIALLY_UNCONSTITUTIONAL"}) # "none"
    THEN Raise(obj, LP_require_stage(obj, {"PARTIALLY_UNCONSTITUTIONAL"}),
               LP_require_stage_message(obj, {"PARTIALLY_UNCONSTITUTIONAL"}))
    ELSE Ret(LP_transition(obj, "SIGNED",
                           "President signed with exclusion of unconstitutional provisions",
                           <<>>),
             "none")

\* Mutant: the return is a stage of its own, from which no operation leads on.
LP_president_returns_to_sejm_dead_end(obj) ==
    IF LP_require_stage(obj, {"PARTIALLY_UNCONSTITUTIONAL"}) # "none"
    THEN Raise(obj, LP_require_stage(obj, {"PARTIALLY_UNCONSTITUTIONAL"}),
               LP_require_stage_message(obj, {"PARTIALLY_UNCONSTITUTIONAL"}))
    ELSE Ret(LP_transition(obj, "RETURNED_TO_SEJM",
                           "Returned to Sejm for removal of unconstitutionality", <<>>),
             "none")

\* Mutant: the log is started afresh when the bill goes back to the Sejm.
LP_president_returns_to_sejm_fresh_log(obj) ==
    IF LP_require_stage(obj, {"PARTIALLY_UNCONSTITUTIONAL"}) # "none"
    THEN Raise(obj, LP_require_stage(obj, {"PARTIALLY_UNCONSTITUTIONAL"}),
               LP_require_stage_message(obj, {"PARTIALLY_UNCONSTITUTIONAL"}))
    ELSE Ret(LP_transition([obj EXCEPT !.history = <<>>], "SEJM_DELIBERATION",
                           "Returned to Sejm for removal of unconstitutionality", <<>>),
             "none")

LP_president_returns_to_sejm(obj) ==
    IF LP_require_stage(obj, {"PARTIALLY_UNCONSTITUTIONAL"}) # "none"
    THEN Raise(obj, LP_require_stage(obj, {"PARTIALLY_UNCONSTITUTIONAL"}),
               LP_require_stage_message(obj, {"PARTIALLY_UNCONSTITUTIONAL"}))
    ELSE Ret(LP_transition(obj, "SEJM_DELIBERATION",
                           "Returned to Sejm for removal of unconstitutionality", <<>>),
             "none")

\* Mutant: the override asks for an ABSOLUTE majority, as the override of the
\* Senate does.
LP_sejm_override_veto_absolute(obj, vote) ==
    IF LP_require_stage(obj, {"VETOED"}) # "none"
    THEN Raise(obj, LP_require_stage(obj, {"VETOED"}),
               LP_require_stage_message(obj, {"VETOED"}))
    ELSE IF vote.chamber # "SEJM" THEN Ret(obj, "AssertionError")
    ELSE IF passes_vote(vote, "ABSOLUTE", TRUE) # "none"
    THEN Ret(LP_transition(obj, "REJECTED", "Veto override failed", <<>>),
             passes_vote(vote, "ABSOLUTE", TRUE))
    ELSE Ret(LP_transition(obj, "VETO_OVERRIDDEN", "Veto overridden by 3/5 Sejm", <<>>),
             "none")

\* Mutant: no try/except around passes_vote, as in senate_amends: the vote error
\* propagates and the bill stays VETOED.
LP_sejm_override_veto_no_except(obj, vote) ==
    IF LP_require_stage(obj, {"VETOED"}) # "none"
    THEN Raise(obj, LP_require_stage(obj, {"VETOED"}),
               LP_require_stage_message(obj, {"VETOED"}))
    ELSE IF vote.chamber # "SEJM" THEN Ret(obj, "AssertionError")
    ELSE IF passes_vote(vote, "THREE_FIFTHS", TRUE) # "none"
    THEN Ret(obj, passes_vote(vote, "THREE_FIFTHS", TRUE))
    ELSE Ret(LP_transition(obj, "VETO_OVERRIDDEN", "Veto overridden by 3/5 Sejm", <<>>),
             "none")

LP_sejm_override_veto(obj, vote) ==
    IF LP_require_stage(obj, {"VETOED"}) # "none"
    THEN Raise(obj, LP_require_stage(obj, {"VETOED"}),
               LP_require_stage_message(obj, {"VETOED"}))
    ELSE IF vote.chamber # "SEJM" THEN Ret(obj, "AssertionError")
    ELSE IF passes_vote(vote, "THREE_FIFTHS", TRUE) # "none"
    THEN Ret(LP_transition(obj, "REJECTED", "Veto override failed", <<>>),
             passes_vote(vote, "THREE_FIFTHS", TRUE))
    ELSE Ret(LP_transition(obj, "VETO_OVERRIDDEN", "Veto overridden by 3/5 Sejm", <<>>),
             "none")

\* Mutant: a bill on the President's desk can be published as well.
LP_enact_from_review(obj) ==
    IF LP_require_stage(obj, {"SIGNED", "VETO_OVERRIDDEN", "PRESIDENT_REVIEW"}) # "none"
    THEN Raise(obj, LP_require_stage(obj, {"SIGNED", "VETO_OVERRIDDEN", "PRESIDENT_REVIEW"}),
               LP_require_stage_message(obj, {"SIGNED", "VETO_OVERRIDDEN", "PRESIDENT_REVIEW"}))
    ELSE Ret(LP_transition(obj, "ENACTED", "Published in Dziennik Ustaw", <<>>), "none")

\* Mutant: only a signed bill can be enacted.
LP_enact_signed_only(obj) ==
    IF LP_require_stage(obj, {"SIGNED"}) # "none"
    THEN Raise(obj, LP_require_stage(obj, {"SIGNED"}),
               LP_require_stage_message(obj, {"SIGNED"}))
    ELSE Ret(LP_transition(obj, "ENACTED", "Published in Dziennik Ustaw", <<>>), "none")

LP_enact(obj) ==
    IF LP_require_stage(obj, {"SIGNED", "VETO_OVERRIDDEN"}) # "none"
    THEN Raise(obj, LP_require_stage(obj, {"SIGNED", "VETO_OVERRIDDEN"}),
               LP_require_stage_message(obj, {"SIGNED", "VETO_OVERRIDDEN"}))
    ELSE Ret(LP_transition(obj, "ENACTED", "Published in Dziennik Ustaw", <<>>), "none")

\* ------------------------------------- chapter_06_council_of_ministers.py

\* GovernmentFormation() with the default stage; stage is its only field.
GovernmentFormation == [stage |-> "PRESIDENT_DESIGNATES"]

GF_require_stage(obj, expected) ==
    IF obj.stage \notin expected THEN "GovernmentFormationError" ELSE "none"

\* f"Cannot proceed: formation is at {self.stage.name}, expected {expected_names}."
GF_require_stage_message(obj, expected) ==
    [actual |-> obj.stage, expected |-> expected]

GF_president_designates(obj) ==
    IF GF_require_stage(obj, {"PRESIDENT_DESIGNATES"}) # "none"
    THEN Raise(obj, GF_require_stage(obj, {"PRESIDENT_DESIGNATES"}),
               GF_require_stage_message(obj, {"PRESIDENT_DESIGNATES"}))
    ELSE Ret([obj EXCEPT !.stage = "CONFIDENCE_VOTE"], "none")

\* try: passes_vote(...); stage = APPOINTED / except Exception: stage = <next>
GF_sejm_confidence_first_attempt(obj, vote) ==
    IF GF_require_stage(obj, {"CONFIDENCE_VOTE"}) # "none"
    THEN Raise(obj, GF_require_stage(obj, {"CONFIDENCE_VOTE"}),
               GF_require_stage_message(obj, {"CONFIDENCE_VOTE"}))
    ELSE IF passes_vote(vote, "ABSOLUTE", TRUE) = "none"
    THEN Ret([obj EXCEPT !.stage = "APPOINTED"], "none")
    ELSE Ret([obj EXCEPT !.stage = "SEJM_ELECTS"], "none")

\* Mutant: after a failed election the President designates a candidate again.
GF_sejm_elects_pm_designate_again(obj, vote) ==
    IF GF_require_stage(obj, {"SEJM_ELECTS"}) # "none"
    THEN Raise(obj, GF_require_stage(obj, {"SEJM_ELECTS"}),
               GF_require_stage_message(obj, {"SEJM_ELECTS"}))
    ELSE IF passes_vote(vote, "ABSOLUTE", TRUE) = "none"
    THEN Ret([obj EXCEPT !.stage = "APPOINTED"], "none")
    ELSE Ret([obj EXCEPT !.stage = "PRESIDENT_DESIGNATES"], "none")

\* Mutant: the failed vote is re-raised after the stage change, as the
\* legislative machine does.
GF_sejm_elects_pm_reraise(obj, vote) ==
    IF GF_require_stage(obj, {"SEJM_ELECTS"}) # "none"
    THEN Raise(obj, GF_require_stage(obj, {"SEJM_ELECTS"}),
               GF_require_stage_message(obj, {"SEJM_ELECTS"}))
    ELSE IF passes_vote(vote, "ABSOLUTE", TRUE) = "none"
    THEN Ret([obj EXCEPT !.stage = "APPOINTED"], "none")
    ELSE Ret([obj EXCEPT !.stage = "PRESIDENT_APPOINTS_RETRY"],
             passes_vote(vote, "ABSOLUTE", TRUE))

GF_sejm_elects_pm(obj, vote) ==
    IF GF_require_stage(obj, {"SEJM_ELECTS"}) # "none"
    THEN Raise(obj, GF_require_stage(obj, {"SEJM_ELECTS"}),
               GF_require_stage_message(obj, {"SEJM_ELECTS"}))
    ELSE IF passes_vote(vote, "ABSOLUTE", TRUE) = "none"
    THEN Ret([obj EXCEPT !.stage = "APPOINTED"], "none")
    ELSE Ret([obj EXCEPT !.stage = "PRESIDENT_APPOINTS_RETRY"], "none")

\* Mutant: the third attempt asks for an ABSOLUTE majority like the first two.
GF_president_appoints_third_attempt_absolute(obj, vote) ==
    IF GF_require_stage(obj, {"PRESIDENT_APPOINTS_RETRY"}) # "none"
    THEN Raise(obj, GF_require_stage(obj, {"PRESIDENT_APPOINTS_RETRY"}),
               GF_require_stage_message(obj, {"PRESIDENT_APPOINTS_RETRY"}))
    ELSE IF passes_vote(vote, "ABSOLUTE", TRUE) = "none"
    THEN Ret([obj EXCEPT !.stage = "APPOINTED"], "none")
    ELSE Ret([obj EXCEPT !.stage = "FAILED"], "none")

GF_president_appoints_third_attempt(obj, vote) ==
    IF GF_require_stage(obj, {"PRESIDENT_APPOINTS_RETRY"}) # "none"
    THEN Raise(obj, GF_require_stage(obj, {"PRESIDENT_APPOINTS_RETRY"}),
               GF_require_stage_message(obj, {"PRESIDENT_APPOINTS_RETRY"}))
    ELSE IF passes_vote(vote, "SIMPLE", TRUE) = "none"
    THEN Ret([obj EXCEPT !.stage = "APPOINTED"], "none")
    ELSE Ret([obj EXCEPT !.stage = "FAILED"], "none")

\* ------------------------------------------------ chapter_12_amendments.py

INITIATORS == {"1/5 Sejm deputies", "Senate", "President"}

REFERENDUM_CHAPTERS == {1, 2, 12}

\* The initiators and affected-chapter sets the caller constructs with.
InitiatorInputs == INITIATORS \cup {"Citizens"}

ChapterInputs == SUBSET {1, 2, 4, 12}

\* AmendmentProcess(title, initiator, affected_chapters) with the default
\* stage and flag (the title is never read and is left out).
AmendmentProcess(initiator, affected_chapters) ==
    [initiator |-> initiator, affected_chapters |-> affected_chapters,
     stage |-> "INITIATED", referendum_requested |-> FALSE]

\* Mutant: __post_init__ accepts any initiator.
AP_post_init_unchecked(obj) == "none"

AP_post_init(obj) ==
    IF obj.initiator \notin INITIATORS THEN "AmendmentError" ELSE "none"

\* f"Invalid initiator '{self.initiator}': must be one of {INITIATORS}"
AP_post_init_message(obj) ==
    [initiator |-> obj.initiator, allowed |-> INITIATORS]

\* f"Cannot ... from stage {self.stage.name}", the message of every stage check
\* of AmendmentProcess.
AP_stage_message(obj) == [actual |-> obj.stage]

\* "Referendum only available for amendments to Chapters I, II, or XII"
AP_chapters_message == [text |-> "Referendum only available"]

touches_protected_chapters(obj) ==
    (obj.affected_chapters \cap REFERENDUM_CHAPTERS) # {}

AP_first_reading(obj) ==
    IF obj.stage # "INITIATED" THEN Raise(obj, "AmendmentError", AP_stage_message(obj))
    ELSE Ret([obj EXCEPT !.stage = "FIRST_READING_SEJM"], "none")

\* Mutant: the tally is evaluated before the stage is looked at.
AP_sejm_vote_tally_first(obj, vote) ==
    IF vote.chamber # "SEJM" THEN Ret(obj, "AssertionError")
    ELSE IF passes_vote(vote, "TWO_THIRDS", TRUE) # "none"
    THEN Ret([obj EXCEPT !.stage = "REJECTED"], passes_vote(vote, "TWO_THIRDS", TRUE))
    ELSE IF obj.stage # "FIRST_READING_SEJM"
    THEN Raise(obj, "AmendmentError", AP_stage_message(obj))
    ELSE Ret([obj EXCEPT !.stage = "SEJM_PASSED"], "none")

AP_sejm_vote(obj, vote) ==
    IF obj.stage # "FIRST_READING_SEJM" THEN Raise(obj, "AmendmentError", AP_stage_message(obj))
    ELSE IF vote.chamber # "SEJM" THEN Ret(obj, "AssertionError")
    ELSE IF passes_vote(vote, "TWO_THIRDS", TRUE) # "none"
    THEN Ret([obj EXCEPT !.stage = "REJECTED"], passes_vote(vote, "TWO_THIRDS", TRUE))
    ELSE Ret([obj EXCEPT !.stage = "SEJM_PASSED"], "none")

\* Mutant: the Senate vote asks for a SIMPLE majority.
AP_senate_vote_simple(obj, vote) ==
    IF obj.stage # "SEJM_PASSED" THEN Raise(obj, "AmendmentError", AP_stage_message(obj))
    ELSE IF vote.chamber # "SENATE" THEN Ret(obj, "AssertionError")
    ELSE IF passes_vote(vote, "SIMPLE", TRUE) # "none"
    THEN Ret([obj EXCEPT !.stage = "REJECTED"], passes_vote(vote, "SIMPLE", TRUE))
    ELSE Ret([obj EXCEPT !.stage = "SENATE_PASSED"], "none")

AP_senate_vote(obj, vote) ==
    IF obj.stage # "SEJM_PASSED" THEN Raise(obj, "AmendmentError", AP_stage_message(obj))
    ELSE IF vote.chamber # "SENATE" THEN Ret(obj, "AssertionError")
    ELSE IF passes_vote(vote, "ABSOLUTE", TRUE) # "none"
    THEN Ret([obj EXCEPT !.stage = "REJECTED"], passes_vote(vote, "ABSOLUTE", TRUE))
    ELSE Ret([obj EXCEPT !.stage = "SENATE_PASSED"], "none")

\* Mutant: a referendum may be requested on any amendment.
AP_request_referendum_any_chapter(obj) ==
    IF obj.stage # "SENATE_PASSED" THEN Raise(obj, "AmendmentError", AP_stage_message(obj))
    ELSE Ret([obj EXCEPT !.referendum_requested = TRUE,
                         !.stage = "REFERENDUM_REQUESTED"], "none")

\* Mutant: the request moves the stage and leaves the flag as it was.
AP_request_referendum_flag_unset(obj) ==
    IF obj.stage # "SENATE_PASSED" THEN Raise(obj, "AmendmentError", AP_stage_message(obj))
    ELSE IF ~touches_protected_chapters(obj)
    THEN Raise(obj, "AmendmentError", AP_chapters_message)
    ELSE Ret([obj EXCEPT !.stage = "REFERENDUM_REQUESTED"], "none")

AP_request_referendum(obj) ==
    IF obj.stage # "SENATE_PASSED" THEN Raise(obj, "AmendmentError", AP_stage_message(obj))
    ELSE IF ~touches_protected_chapters(obj)
    THEN Raise(obj, "AmendmentError", AP_chapters_message)
    ELSE Ret([obj EXCEPT !.referendum_requested = TRUE,
                         !.stage = "REFERENDUM_REQUESTED"], "none")

\* Mutant: after a referendum that goes against the amendment the Senate's
\* text is on the table again.
AP_referendum_result_reopens(obj, approved) ==
    IF obj.stage # "REFERENDUM_REQUESTED" THEN Raise(obj, "AmendmentError", AP_stage_message(obj))
    ELSE IF approved THEN Ret([obj EXCEPT !.stage = "REFERENDUM_PASSED"], "none")
    ELSE Ret([obj EXCEPT !.stage = "SENATE_PASSED"], "none")

\* Mutant: a referendum that goes against the amendment raises, as a failed
\* vote does.
AP_referendum_result_raises(obj, approved) ==
    IF obj.stage # "REFERENDUM_REQUESTED" THEN Raise(obj, "AmendmentError", AP_stage_message(obj))
    ELSE IF approved THEN Ret([obj EXCEPT !.stage = "REFERENDUM_PASSED"], "none")
    ELSE Ret([obj EXCEPT !.stage = "REJECTED"], "MajorityError")

AP_referendum_result(obj, approved) ==
    IF obj.stage # "REFERENDUM_REQUESTED" THEN Raise(obj, "AmendmentError", AP_stage_message(obj))
    ELSE IF approved THEN Ret([obj EXCEPT !.stage = "REFERENDUM_PASSED"], "none")
    ELSE Ret([obj EXCEPT !.stage = "REJECTED"], "none")

\* Mutant: the President may sign once the Sejm has passed the amendment.
AP_president_sign_after_sejm(obj) ==
    IF obj.stage \notin {"SENATE_PASSED", "REFERENDUM_PASSED", "SEJM_PASSED"}
    THEN Raise(obj, "AmendmentError", AP_stage_message(obj))
    ELSE Ret([obj EXCEPT !.stage = "PRESIDENT_SIGNS"], "none")

AP_president_sign(obj) ==
    IF obj.stage \notin {"SENATE_PASSED", "REFERENDUM_PASSED"}
    THEN Raise(obj, "AmendmentError", AP_stage_message(obj))
    ELSE Ret([obj EXCEPT !.stage = "PRESIDENT_SIGNS"], "none")

AP_complete(obj) ==
    IF obj.stage # "PRESIDENT_SIGNS" THEN Raise(obj, "AmendmentError", AP_stage_message(obj))
    ELSE Ret([obj EXCEPT !.stage = "ADOPTED"], "none")

\* ---------------------------------------------------------------- the caller

Call(op, args) == [op |-> op, args |-> args]

\* No instance yet, no call made.
Init ==
    /\ cls = "None"
    /\ self = <<>>
    /\ call = Call("none", <<>>)
    /\ raised = "none"
    /\ visited = <<>>
    /\ message = NoMessage
    /\ objs = <<>>
    /\ heap = <<>>

\* A constructor call that returns the instance obj.
Construct(c, args, obj) ==
    /\ cls = "None"
    /\ cls' = c
    /\ self' = obj
    /\ call' = Call(c, args)
    /\ raised' = "none"
    /\ message' = NoMessage
    /\ visited' = <<obj.stage>>
    /\ UNCHANGED <<objs, heap>>

\* A constructor call that raises: no instance comes to exist.
ConstructFails(c, args, exc, msg) ==
    /\ cls = "None"
    /\ call' = Call(c, args)
    /\ raised' = exc
    /\ message' = msg
    /\ UNCHANGED <<cls, self, visited, objs, heap>>

\* A method call on the instance, ending as r == Ret(instance, exception); the
\* history of a LegislativeProcess is driven no further than `longest`.
InvokeWithin(longest, c, op, args, r) ==
    /\ cls = c
    /\ (c = "LegislativeProcess" => Len(r.self.history) <= longest)
    /\ self' = r.self
    /\ raised' = r.raised
    /\ message' = r.message
    /\ call' = Call(op, args)
    /\ visited' = IF r.self.stage # self.stage
                  THEN Append(visited, r.self.stage) ELSE visited
    /\ UNCHANGED <<cls, objs, heap>>

Invoke(c, op, args, r) == InvokeWithin(MaxHistory, c, op, args, r)

Construct_LegislativeProcess ==
    Construct("LegislativeProcess", <<>>, LegislativeProcess)

Construct_GovernmentFormation ==
    Construct("GovernmentFormation", <<>>, GovernmentFormation)

Construct_AmendmentProcess ==
    \E initiator \in InitiatorInputs, affected_chapters \in ChapterInputs :
        LET obj == AmendmentProcess(initiator, affected_chapters)
            args == <<initiator, affected_chapters>>
        IN  IF AP_post_init(obj) # "none"
            THEN ConstructFails("AmendmentProcess", args, AP_post_init(obj),
                                AP_post_init_message(obj))
            ELSE Construct("AmendmentProcess", args, obj)

Call_LP_begin_sejm_deliberation ==
    Invoke("LegislativeProcess", "begin_sejm_deliberation", <<>>,
           LP_begin_sejm_deliberation(self))

Call_LP_sejm_vote ==
    \E vote \in Tallies :
        Invoke("LegislativeProcess", "sejm_vote", <<vote>>, LP_sejm_vote(self, vote))

Call_LP_send_to_senate ==
    Invoke("LegislativeProcess", "send_to_senate", <<>>, LP_send_to_senate(self))

Call_LP_senate_accepts ==
    Invoke("LegislativeProcess", "senate_accepts", <<>>, LP_senate_accepts(self))

Call_LP_senate_amends ==
    \E vote \in Tallies :
        Invoke("LegislativeProcess", "senate_amends", <<vote>>,
               LP_senate_amends(self, vote))

Call_LP_senate_rejects ==
    \E vote \in Tallies :
        Invoke("LegislativeProcess", "senate_rejects", <<vote>>,
               LP_senate_rejects(self, vote))

Call_LP_sejm_override_senate ==
    \E vote \in Tallies :
        Invoke("LegislativeProcess", "sejm_override_senate", <<vote>>,
               LP_sejm_override_senate(self, vote))

Call_LP_send_to_president ==
    Invoke("LegislativeProcess", "send_to_president", <<>>, LP_send_to_president(self))

Call_LP_president_signs ==
    Invoke("LegislativeProcess", "president_signs", <<>>, LP_president_signs(self))

Call_LP_president_vetoes ==
    Invoke("LegislativeProcess", "president_vetoes", <<>>, LP_president_vetoes(self))

Call_LP_president_refers_to_tribunal ==
    Invoke("LegislativeProcess", "president_refers_to_tribunal", <<>>,
           LP_president_refers_to_tribunal(self))

Call_LP_tribunal_rules_constitutional ==
    Invoke("LegislativeProcess", "tribunal_rules_constitutional", <<>>,
           LP_tribunal_rules_constitutional(self))

Call_LP_tribunal_rules_unconstitutional ==
    Invoke("LegislativeProcess", "tribunal_rules_unconstitutional", <<>>,
           LP_tribunal_rules_unconstitutional(self))

Call_LP_tribunal_rules_partially_unconstitutional ==
    Invoke("LegislativeProcess", "tribunal_rules_partially_unconstitutional", <<>>,
           LP_tribunal_rules_partially_unconstitutional(self))

Call_LP_president_signs_with_exclusions ==
    Invoke("LegislativeProcess", "president_signs_with_exclusions", <<>>,
           LP_president_signs_with_exclusions(self))

Call_LP_president_returns_to_sejm ==
    Invoke("LegislativeProcess", "president_returns_to_sejm", <<>>,
           LP_president_returns_to_sejm(self))

Call_LP_sejm_override_veto ==
    \E vote \in Tallies :
        Invoke("LegislativeProcess", "sejm_override_veto", <<vote>>,
               LP_sejm_override_veto(self, vote))

Call_LP_enact ==
    Invoke("LegislativeProcess", "enact", <<>>, LP_enact(self))

Call_GF_president_designates ==
    Invoke("GovernmentFormation", "president_designates", <<>>,
           GF_president_designates(self))

Call_GF_sejm_confidence_first_attempt ==
    \E vote \in Tallies :
        Invoke("GovernmentFormation", "sejm_confidence_first_attempt", <<vote>>,
               GF_sejm_confidence_first_attempt(self, vote))

Call_GF_sejm_elects_pm ==
    \E vote \in Tallies :
        Invoke("GovernmentFormation", "sejm_elects_pm", <<vote>>,
               GF_sejm_elects_pm(self, vote))

Call_GF_president_appoints_third_attempt ==
    \E vote \in Tallies :
        Invoke("GovernmentFormation", "president_appoints_third_attempt", <<vote>>,
               GF_president_appoints_third_attempt(self, vote))

Call_AP_first_reading ==
    Invoke("AmendmentProcess", "first_reading", <<>>, AP_first_reading(self))

Call_AP_sejm_vote ==
    \E vote \in Tallies :
        Invoke("AmendmentProcess", "sejm_vote", <<vote>>, AP_sejm_vote(self, vote))

Call_AP_senate_vote ==
    \E vote \in Tallies :
        Invoke("AmendmentProcess", "senate_vote", <<vote>>, AP_senate_vote(self, vote))

Call_AP_request_referendum ==
    Invoke("AmendmentProcess", "request_referendum", <<>>, AP_request_referendum(self))

Call_AP_referendum_result ==
    \E approved \in BOOLEAN :
        Invoke("AmendmentProcess", "referendum_result", <<approved>>,
               AP_referendum_result(self, approved))

Call_AP_president_sign ==
    Invoke("AmendmentProcess", "president_sign", <<>>, AP_president_sign(self))

Call_AP_complete ==
    Invoke("AmendmentProcess", "complete", <<>>, AP_complete(self))

Next ==
    \/ Construct_LegislativeProcess
    \/ Construct_GovernmentFormation
    \/ Construct_AmendmentProcess
    \/ Call_LP_begin_sejm_deliberation
    \/ Call_LP_sejm_vote
    \/ Call_LP_send_to_senate
    \/ Call_LP_senate_accepts
    \/ Call_LP_senate_amends
    \/ Call_LP_senate_rejects
    \/ Call_LP_sejm_override_senate
    \/ Call_LP_send_to_president
    \/ Call_LP_president_signs
    \/ Call_LP_president_vetoes
    \/ Call_LP_president_refers_to_tribunal
    \/ Call_LP_tribunal_rules_constitutional
    \/ Call_LP_tribunal_rules_unconstitutional
    \/ Call_LP_tribunal_rules_partially_unconstitutional
    \/ Call_LP_president_signs_with_exclusions
    \/ Call_LP_president_returns_to_sejm
    \/ Call_LP_sejm_override_veto
    \/ Call_LP_enact
    \/ Call_GF_president_designates
    \/ Call_GF_sejm_confidence_first_attempt
    \/ Call_GF_sejm_elects_pm
    \/ Call_GF_president_appoints_third_attempt
    \/ Call_AP_first_reading
    \/ Call_AP_sejm_vote
    \/ Call_AP_senate_vote
    \/ Call_AP_request_referendum
    \/ Call_AP_referendum_result
    \/ Call_AP_president_sign
    \/ Call_AP_complete

Spec == Init /\ [][Next]_vars

\* ------------------------------------------- the caller of one bill, at length
\* One LegislativeProcess driven through up to MaxSecondPassHistory stage
\* changes, with one passing and one failing tally per chamber.

\*   Sejm    307/153/0   passes SIMPLE, ABSOLUTE and THREE_FIFTHS
\*           150/200/80  fails them all
\*   Senate  55/40/5     passes SIMPLE
\*           40/55/5     fails it
SecondPassTallies ==
    { VoteRecord("SEJM", 307, 153, 0), VoteRecord("SEJM", 150, 200, 80),
      VoteRecord("SENATE", 55, 40, 5), VoteRecord("SENATE", 40, 55, 5) }

Bill_Construct == Construct("LegislativeProcess", <<>>, LegislativeProcess)

Bill_begin_sejm_deliberation ==
    InvokeWithin(MaxSecondPassHistory, "LegislativeProcess", "begin_sejm_deliberation", <<>>,
                 LP_begin_sejm_deliberation(self))

Bill_sejm_vote ==
    \E vote \in SecondPassTallies :
        InvokeWithin(MaxSecondPassHistory, "LegislativeProcess", "sejm_vote", <<vote>>,
                     LP_sejm_vote(self, vote))

Bill_send_to_senate ==
    InvokeWithin(MaxSecondPassHistory, "LegislativeProcess", "send_to_senate", <<>>,
                 LP_send_to_senate(self))

Bill_senate_accepts ==
    InvokeWithin(MaxSecondPassHistory, "LegislativeProcess", "senate_accepts", <<>>,
                 LP_senate_accepts(self))

Bill_senate_amends ==
    \E vote \in SecondPassTallies :
        InvokeWithin(MaxSecondPassHistory, "LegislativeProcess", "senate_amends", <<vote>>,
                     LP_senate_amends(self, vote))

Bill_senate_rejects ==
    \E vote \in SecondPassTallies :
        InvokeWithin(MaxSecondPassHistory, "LegislativeProcess", "senate_rejects", <<vote>>,
                     LP_senate_rejects(self, vote))

Bill_sejm_override_senate ==
    \E vote \in SecondPassTallies :
        InvokeWithin(MaxSecondPassHistory, "LegislativeProcess", "sejm_override_senate", <<vote>>,
                     LP_sejm_override_senate(self, vote))

Bill_send_to_president ==
    InvokeWithin(MaxSecondPassHistory, "LegislativeProcess", "send_to_president", <<>>,
                 LP_send_to_president(self))

Bill_president_signs ==
    InvokeWithin(MaxSecondPassHistory, "LegislativeProcess", "president_signs", <<>>,
                 LP_president_signs(self))

Bill_president_vetoes ==
    InvokeWithin(MaxSecondPassHistory, "LegislativeProcess", "president_vetoes", <<>>,
                 LP_president_vetoes(self))

Bill_president_refers_to_tribunal ==
    InvokeWithin(MaxSecondPassHistory, "LegislativeProcess", "president_refers_to_tribunal", <<>>,
                 LP_president_refers_to_tribunal(self))

Bill_tribunal_rules_constitutional ==
    InvokeWithin(MaxSecondPassHistory, "LegislativeProcess", "tribunal_rules_constitutional", <<>>,
                 LP_tribunal_rules_constitutional(self))

Bill_tribunal_rules_unconstitutional ==
    InvokeWithin(MaxSecondPassHistory, "LegislativeProcess", "tribunal_rules_unconstitutional", <<>>,
                 LP_tribunal_rules_unconstitutional(self))

Bill_tribunal_rules_partially_unconstitutional ==
    InvokeWithin(MaxSecondPassHistory, "LegislativeProcess", "tribunal_rules_partially_unconstitutional", <<>>,
                 LP_tribunal_rules_partially_unconstitutional(self))

Bill_president_signs_with_exclusions ==
    InvokeWithin(MaxSecondPassHistory, "LegislativeProcess", "president_signs_with_exclusions", <<>>,
                 LP_president_signs_with_exclusions(self))

Bill_president_returns_to_sejm ==
    InvokeWithin(MaxSecondPassHistory, "LegislativeProcess", "president_returns_to_sejm", <<>>,
                 LP_president_returns_to_sejm(self))

Bill_sejm_override_veto ==
    \E vote \in SecondPassTallies :
        InvokeWithin(MaxSecondPassHistory, "LegislativeProcess", "sejm_override_veto", <<vote>>,
                     LP_sejm_override_veto(self, vote))

Bill_enact ==
    InvokeWithin(MaxSecondPassHistory, "LegislativeProcess", "enact", <<>>,
                 LP_enact(self))

SecondPassNext ==
    \/ Bill_Construct
    \/ Bill_begin_sejm_deliberation
    \/ Bill_sejm_vote
    \/ Bill_send_to_senate
    \/ Bill_senate_accepts
    \/ Bill_senate_amends
    \/ Bill_senate_rejects
    \/ Bill_sejm_override_senate
    \/ Bill_send_to_president
    \/ Bill_president_signs
    \/ Bill_president_vetoes
    \/ Bill_president_refers_to_tribunal
    \/ Bill_tribunal_rules_constitutional
    \/ Bill_tribunal_rules_unconstitutional
    \/ Bill_tribunal_rules_partially_unconstitutional
    \/ Bill_president_signs_with_exclusions
    \/ Bill_president_returns_to_sejm
    \/ Bill_sejm_override_veto
    \/ Bill_enact

SecondPassSpec == Init /\ [][SecondPassNext]_vars

\* ------------------------------------------------ the caller of voting.py
\* A caller of the three functions of common/voting.py, with no process
\* instance: `call` is the function called with its arguments, `raised` the
\* exception it ended with ("none" when it returned True or None).

MajorityTypes == {"SIMPLE", "ABSOLUTE", "TWO_THIRDS", "THREE_FIFTHS"}

\* The tallies the functions are called with: every combination of the counts
\* below that leaves no more members present than the chamber has.  The counts
\* lie on both sides of each threshold: 229 | 230 present and 230 | 231 for of
\* 460, 199 | 200 for of 300 present, 275 | 276 for of 460 present, ties, and
\* 49 | 50 | 51 for and 66 | 67 for of 100.
VotingTallies ==
    { v \in { VoteRecord("SEJM", f, a, b) :
                f \in {0, 100, 199, 200, 229, 230, 231, 275, 276},
                a \in {0, 29, 30, 99, 100, 101, 184, 185},
                b \in {0, 1, 231} } : total_present(v) <= SEJM_MEMBERS }
    \cup
    { v \in { VoteRecord("SENATE", f, a, b) :
                f \in {0, 49, 50, 51, 66, 67, 100},
                a \in {0, 33, 34, 50},
                b \in {0, 1, 16} } : total_present(v) <= SENATE_MEMBERS }

\* A call of a function of voting.py ending with the exception exc.
CallFunction(op, args, exc) ==
    /\ cls = "None"
    /\ call' = Call(op, args)
    /\ raised' = exc
    /\ message' = NoMessage
    /\ UNCHANGED <<cls, self, visited, objs, heap>>

Call_check_quorum ==
    \E vote \in VotingTallies :
        CallFunction("check_quorum", <<vote>>, check_quorum(vote))

Call_check_majority ==
    \E vote \in VotingTallies, majority_type \in MajorityTypes :
        CallFunction("check_majority", <<vote, majority_type>>,
                     check_majority(vote, majority_type))

Call_passes_vote ==
    \E vote \in VotingTallies, majority_type \in MajorityTypes,
       require_quorum \in BOOLEAN :
        CallFunction("passes_vote", <<vote, majority_type, require_quorum>>,
                     passes_vote(vote, majority_type, require_quorum))

VotingNext ==
    \/ Call_check_quorum
    \/ Call_check_majority
    \/ Call_passes_vote

VotingSpec == Init /\ [][VotingNext]_vars

\* ------------------------------------------------ a caller of two instances
\* A caller that constructs two instances, of any of the three classes, and
\* calls their methods in any order.  `objs` are the two instances in the order
\* they were constructed.  A field that refers to a list holds the address of
\* that list in `heap`: the history of a LegislativeProcess is a list object
\* that _transition appends to in place, so two instances whose fields held
\* the same address would see each other's entries.  (affected_chapters is a
\* set object too, and no method writes to it.)

\* The longest history a bill of the pair is driven to.
MaxPairHistory == 3

PairTallies ==
    { VoteRecord("SEJM", 307, 153, 0), VoteRecord("SEJM", 150, 200, 80),
      VoteRecord("SENATE", 55, 40, 5) }

PairInitiators == {"President", "Citizens"}

PairChapters == { {1}, {4} }

\* Mutant: every instance is given the one list made when the class was defined.
list_shared_default(memory) == 1

\* field(default_factory=list): list() is called at each construction and
\* returns a list object that did not exist before.
list_default_factory(memory) == Len(memory) + 1

\* The memory once the list at `address` exists (empty when it is new).
Allocated(memory, address) ==
    IF address > Len(memory) THEN Append(memory, <<>>) ELSE memory

\* Instance i with its list fields read through.
Deref(i) ==
    IF objs[i].cls = "LegislativeProcess"
    THEN [objs[i].fields EXCEPT !.history = heap[@]]
    ELSE objs[i].fields

\* A constructor call that returns an instance with the given fields.
PairConstruct(c, args, fields, memory) ==
    /\ Len(objs) < 2
    /\ objs' = Append(objs, [cls |-> c, fields |-> fields])
    /\ heap' = memory
    /\ call' = Call(c, args)
    /\ raised' = "none"
    /\ message' = NoMessage
    /\ UNCHANGED <<cls, self, visited>>

\* A method call on instance i (its first argument), ending as
\* r == Ret(instance, exception): the fields are assigned in the instance, the
\* history is written to the list the instance refers to.
PairInvoke(i, c, op, args, r) ==
    /\ objs[i].cls = c
    /\ (c = "LegislativeProcess" => Len(r.self.history) <= MaxPairHistory)
    /\ objs' = [objs EXCEPT ![i].fields =
                    IF c = "LegislativeProcess"
                    THEN [r.self EXCEPT !.history = objs[i].fields.history]
                    ELSE r.self]
    /\ heap' = IF c = "LegislativeProcess"
               THEN [heap EXCEPT ![objs[i].fields.history] = r.self.history]
               ELSE heap
    /\ call' = Call(op, <<i>> \o args)
    /\ raised' = r.raised
    /\ message' = r.message
    /\ UNCHANGED <<cls, self, visited>>

Pair_Construct_LegislativeProcess ==
    LET history == list_default_factory(heap)
    IN  PairConstruct("LegislativeProcess", <<>>,
                      [LegislativeProcess EXCEPT !.history = history],
                      Allocated(heap, history))

Pair_Construct_GovernmentFormation ==
    PairConstruct("GovernmentFormation", <<>>, GovernmentFormation, heap)

Pair_Construct_AmendmentProcess ==
    \E initiator \in PairInitiators, affected_chapters \in PairChapters :
        LET obj == AmendmentProcess(initiator, affected_chapters)
            args == <<initiator, affected_chapters>>
        IN  IF AP_post_init(obj) # "none"
            THEN /\ Len(objs) < 2
                 /\ call' = Call("AmendmentProcess", args)
                 /\ raised' = AP_post_init(obj)
                 /\ message' = AP_post_init_message(obj)
                 /\ UNCHANGED <<cls, self, visited, objs, heap>>
            ELSE PairConstruct("AmendmentProcess", args, obj, heap)

Pair_LP_begin_sejm_deliberation ==
    \E i \in DOMAIN objs :
        PairInvoke(i, "LegislativeProcess", "begin_sejm_deliberation", <<>>,
                   LP_begin_sejm_deliberation(Deref(i)))

Pair_LP_sejm_vote ==
    \E i \in DOMAIN objs, vote \in PairTallies :
        PairInvoke(i, "LegislativeProcess", "sejm_vote", <<vote>>,
                   LP_sejm_vote(Deref(i), vote))

Pair_LP_send_to_senate ==
    \E i \in DOMAIN objs :
        PairInvoke(i, "LegislativeProcess", "send_to_senate", <<>>,
                   LP_send_to_senate(Deref(i)))

Pair_LP_senate_accepts ==
    \E i \in DOMAIN objs :
        PairInvoke(i, "LegislativeProcess", "senate_accepts", <<>>,
                   LP_senate_accepts(Deref(i)))

Pair_LP_senate_amends ==
    \E i \in DOMAIN objs, vote \in PairTallies :
        PairInvoke(i, "LegislativeProcess", "senate_amends", <<vote>>,
                   LP_senate_amends(Deref(i), vote))

Pair_LP_senate_rejects ==
    \E i \in DOMAIN objs, vote \in PairTallies :
        PairInvoke(i, "LegislativeProcess", "senate_rejects", <<vote>>,
                   LP_senate_rejects(Deref(i), vote))

Pair_LP_sejm_override_senate ==
    \E i \in DOMAIN objs, vote \in PairTallies :
        PairInvoke(i, "LegislativeProcess", "sejm_override_senate", <<vote>>,
                   LP_sejm_override_senate(Deref(i), vote))

Pair_LP_send_to_president ==
    \E i \in DOMAIN objs :
        PairInvoke(i, "LegislativeProcess", "send_to_president", <<>>,
                   LP_send_to_president(Deref(i)))

Pair_LP_president_signs ==
    \E i \in DOMAIN objs :
        PairInvoke(i, "LegislativeProcess", "president_signs", <<>>,
                   LP_president_signs(Deref(i)))

Pair_LP_president_vetoes ==
    \E i \in DOMAIN objs :
        PairInvoke(i, "LegislativeProcess", "president_vetoes", <<>>,
                   LP_president_vetoes(Deref(i)))

Pair_LP_president_refers_to_tribunal ==
    \E i \in DOMAIN objs :
        PairInvoke(i, "LegislativeProcess", "president_refers_to_tribunal", <<>>,
                   LP_president_refers_to_tribunal(Deref(i)))

Pair_LP_tribunal_rules_constitutional ==
    \E i \in DOMAIN objs :
        PairInvoke(i, "LegislativeProcess", "tribunal_rules_constitutional", <<>>,
                   LP_tribunal_rules_constitutional(Deref(i)))

Pair_LP_tribunal_rules_unconstitutional ==
    \E i \in DOMAIN objs :
        PairInvoke(i, "LegislativeProcess", "tribunal_rules_unconstitutional", <<>>,
                   LP_tribunal_rules_unconstitutional(Deref(i)))

Pair_LP_tribunal_rules_partially_unconstitutional ==
    \E i \in DOMAIN objs :
        PairInvoke(i, "LegislativeProcess", "tribunal_rules_partially_unconstitutional", <<>>,
                   LP_tribunal_rules_partially_unconstitutional(Deref(i)))

Pair_LP_president_signs_with_exclusions ==
    \E i \in DOMAIN objs :
        PairInvoke(i, "LegislativeProcess", "president_signs_with_exclusions", <<>>,
                   LP_president_signs_with_exclusions(Deref(i)))

Pair_LP_president_returns_to_sejm ==
    \E i \in DOMAIN objs :
        PairInvoke(i, "LegislativeProcess", "president_returns_to_sejm", <<>>,
                   LP_president_returns_to_sejm(Deref(i)))

Pair_LP_sejm_override_veto ==
    \E i \in DOMAIN objs, vote \in PairTallies :
        PairInvoke(i, "LegislativeProcess", "sejm_override_veto", <<vote>>,
                   LP_sejm_override_veto(Deref(i), vote))

Pair_LP_enact ==
    \E i \in DOMAIN objs :
        PairInvoke(i, "LegislativeProcess", "enact", <<>>,
                   LP_enact(Deref(i)))

Pair_GF_president_designates ==
    \E i \in DOMAIN objs :
        PairInvoke(i, "GovernmentFormation", "president_designates", <<>>,
                   GF_president_designates(Deref(i)))

Pair_GF_sejm_confidence_first_attempt ==
    \E i \in DOMAIN objs, vote \in PairTallies :
        PairInvoke(i, "GovernmentFormation", "sejm_confidence_first_attempt", <<vote>>,
                   GF_sejm_confidence_first_attempt(Deref(i), vote))

Pair_GF_sejm_elects_pm ==
    \E i \in DOMAIN objs, vote \in PairTallies :
        PairInvoke(i, "GovernmentFormation", "sejm_elects_pm", <<vote>>,
                   GF_sejm_elects_pm(Deref(i), vote))

Pair_GF_president_appoints_third_attempt ==
    \E i \in DOMAIN objs, vote \in PairTallies :
        PairInvoke(i, "GovernmentFormation", "president_appoints_third_attempt", <<vote>>,
                   GF_president_appoints_third_attempt(Deref(i), vote))

Pair_AP_first_reading ==
    \E i \in DOMAIN objs :
        PairInvoke(i, "AmendmentProcess", "first_reading", <<>>,
                   AP_first_reading(Deref(i)))

Pair_AP_sejm_vote ==
    \E i \in DOMAIN objs, vote \in PairTallies :
        PairInvoke(i, "AmendmentProcess", "sejm_vote", <<vote>>,
                   AP_sejm_vote(Deref(i), vote))

Pair_AP_senate_vote ==
    \E i \in DOMAIN objs, vote \in PairTallies :
        PairInvoke(i, "AmendmentProcess", "senate_vote", <<vote>>,
                   AP_senate_vote(Deref(i), vote))

Pair_AP_request_referendum ==
    \E i \in DOMAIN objs :
        PairInvoke(i, "AmendmentProcess", "request_referendum", <<>>,
                   AP_request_referendum(Deref(i)))

Pair_AP_referendum_result ==
    \E i \in DOMAIN objs, approved \in BOOLEAN :
        PairInvoke(i, "AmendmentProcess", "referendum_result", <<approved>>,
                   AP_referendum_result(Deref(i), approved))

Pair_AP_president_sign ==
    \E i \in DOMAIN objs :
        PairInvoke(i, "AmendmentProcess", "president_sign", <<>>,
                   AP_president_sign(Deref(i)))

Pair_AP_complete ==
    \E i \in DOMAIN objs :
        PairInvoke(i, "AmendmentProcess", "complete", <<>>,
                   AP_complete(Deref(i)))

PairNext ==
    \/ Pair_Construct_LegislativeProcess
    \/ Pair_Construct_GovernmentFormation
    \/ Pair_Construct_AmendmentProcess
    \/ Pair_LP_begin_sejm_deliberation
    \/ Pair_LP_sejm_vote
    \/ Pair_LP_send_to_senate
    \/ Pair_LP_senate_accepts
    \/ Pair_LP_senate_amends
    \/ Pair_LP_senate_rejects
    \/ Pair_LP_sejm_override_senate
    \/ Pair_LP_send_to_president
    \/ Pair_LP_president_signs
    \/ Pair_LP_president_vetoes
    \/ Pair_LP_president_refers_to_tribunal
    \/ Pair_LP_tribunal_rules_constitutional
    \/ Pair_LP_tribunal_rules_unconstitutional
    \/ Pair_LP_tribunal_rules_partially_unconstitutional
    \/ Pair_LP_president_signs_with_exclusions
    \/ Pair_LP_president_returns_to_sejm
    \/ Pair_LP_sejm_override_veto
    \/ Pair_LP_enact
    \/ Pair_GF_president_designates
    \/ Pair_GF_sejm_confidence_first_attempt
    \/ Pair_GF_sejm_elects_pm
    \/ Pair_GF_president_appoints_third_attempt
    \/ Pair_AP_first_reading
    \/ Pair_AP_sejm_vote
    \/ Pair_AP_senate_vote
    \/ Pair_AP_request_referendum
    \/ Pair_AP_referendum_result
    \/ Pair_AP_president_sign
    \/ Pair_AP_complete

PairSpec == Init /\ [][PairNext]_vars

\* ================================================================ claims
\* What the claims say, stated from the specification and independently of the
\* method definitions above.

\* The step is a method call on the instance (not a constructor call).
MethodCall == cls # "None" /\ cls' = cls

\* The error a machine raises for an illegal transition.
ProcessError ==
    [LegislativeProcess  |-> "LegislativeProcessError",
     GovernmentFormation |-> "GovernmentFormationError",
     AmendmentProcess    |-> "AmendmentError"]

\* The permitted source stages of every transition operation.
PermittedStages ==
    [LegislativeProcess |->
        [begin_sejm_deliberation |-> {"INITIATED"},
         sejm_vote |-> {"SEJM_DELIBERATION"},
         send_to_senate |-> {"SEJM_PASSED"},
         senate_accepts |-> {"SENATE_DELIBERATION"},
         senate_amends |-> {"SENATE_DELIBERATION"},
         senate_rejects |-> {"SENATE_DELIBERATION"},
         sejm_override_senate |-> {"SENATE_AMENDED", "SENATE_REJECTED"},
         send_to_president |-> {"SENATE_PASSED", "SEJM_OVERRIDE_VOTE"},
         president_signs |-> {"PRESIDENT_REVIEW"},
         president_vetoes |-> {"PRESIDENT_REVIEW"},
         president_refers_to_tribunal |-> {"PRESIDENT_REVIEW"},
         tribunal_rules_constitutional |-> {"REFERRED_TO_TRIBUNAL"},
         tribunal_rules_unconstitutional |-> {"REFERRED_TO_TRIBUNAL"},
         tribunal_rules_partially_unconstitutional |-> {"REFERRED_TO_TRIBUNAL"},
         president_signs_with_exclusions |-> {"PARTIALLY_UNCONSTITUTIONAL"},
         president_returns_to_sejm |-> {"PARTIALLY_UNCONSTITUTIONAL"},
         sejm_override_veto |-> {"VETOED"},
         enact |-> {"SIGNED", "VETO_OVERRIDDEN"}],
     GovernmentFormation |->
        [president_designates |-> {"PRESIDENT_DESIGNATES"},
         sejm_confidence_first_attempt |-> {"CONFIDENCE_VOTE"},
         sejm_elects_pm |-> {"SEJM_ELECTS"},
         president_appoints_third_attempt |-> {"PRESIDENT_APPOINTS_RETRY"}],
     AmendmentProcess |->
        [first_reading |-> {"INITIATED"},
         sejm_vote |-> {"FIRST_READING_SEJM"},
         senate_vote |-> {"SEJM_PASSED"},
         request_referendum |-> {"SENATE_PASSED"},
         referendum_result |-> {"REFERENDUM_REQUESTED"},
         president_sign |-> {"SENATE_PASSED", "REFERENDUM_PASSED"},
         complete |-> {"PRESIDENT_SIGNS"}]]

TerminalStages ==
    [LegislativeProcess  |-> {"ENACTED", "REJECTED"},
     GovernmentFormation |-> {"APPOINTED", "FAILED"},
     AmendmentProcess    |-> {"ADOPTED", "REJECTED"}]

\* The vote a vote-bearing operation takes: whose chamber, which majority, and
\* the stage a passing (and, in GovernmentFormation, a failing) tally leads to.
VoteRule ==
    [LegislativeProcess |->
        [sejm_vote |-> [chamber |-> "SEJM", kind |-> "SIMPLE", pass |-> "SEJM_PASSED"],
         senate_amends |->
            [chamber |-> "SENATE", kind |-> "SIMPLE", pass |-> "SENATE_AMENDED"],
         senate_rejects |->
            [chamber |-> "SENATE", kind |-> "SIMPLE", pass |-> "SENATE_REJECTED"],
         sejm_override_senate |->
            [chamber |-> "SEJM", kind |-> "ABSOLUTE", pass |-> "SEJM_OVERRIDE_VOTE"],
         sejm_override_veto |->
            [chamber |-> "SEJM", kind |-> "THREE_FIFTHS", pass |-> "VETO_OVERRIDDEN"]],
     GovernmentFormation |->
        [sejm_confidence_first_attempt |->
            [kind |-> "ABSOLUTE", pass |-> "APPOINTED", fail |-> "SEJM_ELECTS"],
         sejm_elects_pm |->
            [kind |-> "ABSOLUTE", pass |-> "APPOINTED",
             fail |-> "PRESIDENT_APPOINTS_RETRY"],
         president_appoints_third_attempt |->
            [kind |-> "SIMPLE", pass |-> "APPOINTED", fail |-> "FAILED"]],
     AmendmentProcess |->
        [sejm_vote |-> [chamber |-> "SEJM", kind |-> "TWO_THIRDS", pass |-> "SEJM_PASSED"],
         senate_vote |->
            [chamber |-> "SENATE", kind |-> "ABSOLUTE", pass |-> "SENATE_PASSED"]]]

\* The step calls the vote-bearing operation op in one of its permitted stages.
VoteCall(c, op) ==
    /\ cls = c
    /\ cls' = c
    /\ call'.op = op
    /\ self.stage \in PermittedStages[c][op]

Present(v) == v.votes_for + v.votes_against + v.votes_abstain

StatutoryMembers(v) == IF v.chamber = "SEJM" THEN SEJM_MEMBERS ELSE SENATE_MEMBERS

MeetsQuorum(v) == Present(v) * 2 >= StatutoryMembers(v)

MeetsMajority(v, kind) ==
    CASE kind = "SIMPLE"       -> v.votes_for > v.votes_against
      [] kind = "ABSOLUTE"     -> v.votes_for * 2 > StatutoryMembers(v)
      [] kind = "TWO_THIRDS"   -> v.votes_for * 3 >= Present(v) * 2
      [] kind = "THREE_FIFTHS" -> v.votes_for * 5 >= Present(v) * 3

\* The error a tally fails a quorum-and-majority vote with ("none": it passes).
VoteError(v, kind) ==
    IF ~MeetsQuorum(v) THEN "QuorumError"
    ELSE IF ~MeetsMajority(v, kind) THEN "MajorityError"
    ELSE "none"

\* ---------------------------------------------------------------- C1
\* C1: in each of the three machines, a transition operation called in a stage
\* that is not one of its permitted source stages raises the machine's process
\* error and leaves the stage (and, in LegislativeProcess, the history) as it
\* was.
C1_IllegalCallKeepsStage ==
    [][ (MethodCall /\ self.stage \notin PermittedStages[cls][call'.op])
            => /\ raised' = ProcessError[cls]
               /\ self'.stage = self.stage
               /\ (cls = "LegislativeProcess" => self'.history = self.history) ]_vars

\* president_signs before send_to_president.
C1_Witness ==
    /\ cls = "LegislativeProcess"
    /\ call.op = "president_signs"
    /\ raised = "LegislativeProcessError"
    /\ self.stage = "SENATE_PASSED"
    /\ Len(self.history) = 4

\* ---------------------------------------------------------------- C2
\* C2 as stated: in LegislativeProcess every vote-bearing transition (sejm_vote,
\* senate_amends, senate_rejects, sejm_override_senate, sejm_override_veto)
\* called in a permitted stage with a tally of its chamber that fails quorum or
\* majority moves the stage to REJECTED and raises QuorumError or MajorityError.
C2_EveryFailedVoteRejects ==
    [][ \A op \in DOMAIN VoteRule.LegislativeProcess :
          LET rule == VoteRule.LegislativeProcess[op]
              vote == call'.args[1]
          IN  (/\ VoteCall("LegislativeProcess", op)
               /\ vote.chamber = rule.chamber
               /\ VoteError(vote, rule.kind) # "none")
                => /\ self'.stage = "REJECTED"
                   /\ raised' = VoteError(vote, rule.kind) ]_vars

\* C2 as amended: the three Sejm votes (sejm_vote, sejm_override_senate,
\* sejm_override_veto) move the stage to REJECTED and raise the vote error; a
\* failing senate_amends or senate_rejects raises the vote error and leaves the
\* instance as it was.
C2_FailedSejmVoteRejects ==
    [][ \A op \in DOMAIN VoteRule.LegislativeProcess :
          LET rule == VoteRule.LegislativeProcess[op]
              vote == call'.args[1]
          IN  (/\ VoteCall("LegislativeProcess", op)
               /\ vote.chamber = rule.chamber
               /\ VoteError(vote, rule.kind) # "none")
                => /\ raised' = VoteError(vote, rule.kind)
                   /\ IF op \in {"senate_amends", "senate_rejects"}
                      THEN self' = self
                      ELSE /\ self'.stage = "REJECTED"
                           /\ Len(self'.history) = Len(self.history) + 1 ]_vars

\* A veto override that misses three fifths (250/180/10).
C2_Witness ==
    /\ cls = "LegislativeProcess"
    /\ call.op = "sejm_override_veto"
    /\ call.args[1] = VoteRecord("SEJM", 250, 180, 10)
    /\ raised = "MajorityError"
    /\ self.stage = "REJECTED"

\* ---------------------------------------------------------------- C3
\* C3: in GovernmentFormation a failing tally (quorum miss or majority miss)
\* given to sejm_confidence_first_attempt, sejm_elects_pm or
\* president_appoints_third_attempt in its permitted stage raises nothing and
\* moves the stage to SEJM_ELECTS, PRESIDENT_APPOINTS_RETRY or FAILED; the only
\* error these operations raise is the illegal-stage error; FAILED is reached
\* only along PRESIDENT_DESIGNATES -> CONFIDENCE_VOTE -> SEJM_ELECTS ->
\* PRESIDENT_APPOINTS_RETRY -> FAILED.
C3_FailedConfidenceVoteNeverRaises ==
    /\ [][ \A op \in DOMAIN VoteRule.GovernmentFormation :
             LET rule == VoteRule.GovernmentFormation[op]
                 vote == call'.args[1]
             IN  /\ (VoteCall("GovernmentFormation", op)
                        /\ VoteError(vote, rule.kind) # "none")
                       => (raised' = "none" /\ self'.stage = rule.fail)
                 /\ (cls = "GovernmentFormation" /\ cls' = cls /\ call'.op = op)
                       => /\ raised' \in {"none", "GovernmentFormationError"}
                          /\ (raised' # "none") =
                               (self.stage \notin
                                  PermittedStages.GovernmentFormation[op]) ]_vars
    /\ [](cls = "GovernmentFormation" /\ self.stage = "FAILED"
            => visited = <<"PRESIDENT_DESIGNATES", "CONFIDENCE_VOTE", "SEJM_ELECTS",
                           "PRESIDENT_APPOINTS_RETRY", "FAILED">>)

\* Three failing votes in a row, the last one a quorum miss.
C3_Witness ==
    /\ cls = "GovernmentFormation"
    /\ call.op = "president_appoints_third_attempt"
    /\ ~MeetsQuorum(call.args[1])
    /\ raised = "none"
    /\ visited = <<"PRESIDENT_DESIGNATES", "CONFIDENCE_VOTE", "SEJM_ELECTS",
                   "PRESIDENT_APPOINTS_RETRY", "FAILED">>

\* ---------------------------------------------------------------- C4
\* C4: in AmendmentProcess, sejm_vote at FIRST_READING_SEJM (with a Sejm tally)
\* moves to SEJM_PASSED iff the tally meets quorum and TWO_THIRDS, senate_vote
\* at SEJM_PASSED (with a Senate tally) moves to SENATE_PASSED iff the tally
\* meets quorum and ABSOLUTE; a failing tally moves the stage to REJECTED and
\* raises the QuorumError or MajorityError.
C4_AmendmentVotes ==
    [][ \A op \in DOMAIN VoteRule.AmendmentProcess :
          LET rule == VoteRule.AmendmentProcess[op]
              vote == call'.args[1]
          IN  (VoteCall("AmendmentProcess", op) /\ vote.chamber = rule.chamber)
                => /\ (self'.stage = rule.pass) =
                        (MeetsQuorum(vote) /\ MeetsMajority(vote, rule.kind))
                   /\ (self'.stage = rule.pass) => raised' = "none"
                   /\ (self'.stage # rule.pass)
                        => /\ self'.stage = "REJECTED"
                           /\ raised' = VoteError(vote, rule.kind)
                           /\ raised' \in {"QuorumError", "MajorityError"} ]_vars

\* A Senate vote with a quorum and a simple majority, but not an absolute one.
C4_Witness ==
    /\ cls = "AmendmentProcess"
    /\ call.op = "senate_vote"
    /\ call.args[1] = VoteRecord("SENATE", 50, 0, 0)
    /\ raised = "MajorityError"
    /\ self.stage = "REJECTED"
    /\ visited = <<"INITIATED", "FIRST_READING_SEJM", "SEJM_PASSED", "REJECTED">>

\* ---------------------------------------------------------------- C5
\* C5: a terminal stage is absorbing: at ENACTED or REJECTED (LegislativeProcess),
\* APPOINTED or FAILED (GovernmentFormation), ADOPTED or REJECTED
\* (AmendmentProcess) every transition operation raises the illegal-transition
\* error and the stage does not change.
C5_TerminalStagesAbsorb ==
    [][ (MethodCall /\ self.stage \in TerminalStages[cls])
            => /\ self'.stage = self.stage
               /\ raised' = ProcessError[cls] ]_vars

\* enact called again on an enacted bill.
C5_Witness ==
    /\ cls = "LegislativeProcess"
    /\ self.stage = "ENACTED"
    /\ call.op = "enact"
    /\ raised = "LegislativeProcessError"

\* ---------------------------------------------------------------- C6
\* Everything a call can end with: each method of class c applied to obj, with
\* every argument the caller passes.
Outcomes(c, obj) ==
    CASE c = "LegislativeProcess" ->
            { LP_begin_sejm_deliberation(obj), LP_send_to_senate(obj),
              LP_senate_accepts(obj), LP_send_to_president(obj),
              LP_president_signs(obj), LP_president_vetoes(obj),
              LP_president_refers_to_tribunal(obj),
              LP_tribunal_rules_constitutional(obj),
              LP_tribunal_rules_unconstitutional(obj),
              LP_tribunal_rules_partially_unconstitutional(obj),
              LP_president_signs_with_exclusions(obj),
              LP_president_returns_to_sejm(obj), LP_enact(obj) }
            \cup { LP_sejm_vote(obj, v) : v \in Tallies }
            \cup { LP_senate_amends(obj, v) : v \in Tallies }
            \cup { LP_senate_rejects(obj, v) : v \in Tallies }
            \cup { LP_sejm_override_senate(obj, v) : v \in Tallies }
            \cup { LP_sejm_override_veto(obj, v) : v \in Tallies }
      [] c = "GovernmentFormation" ->
            { GF_president_designates(obj) }
            \cup { GF_sejm_confidence_first_attempt(obj, v) : v \in Tallies }
            \cup { GF_sejm_elects_pm(obj, v) : v \in Tallies }
            \cup { GF_president_appoints_third_attempt(obj, v) : v \in Tallies }
      [] c = "AmendmentProcess" ->
            { AP_first_reading(obj), AP_request_referendum(obj),
              AP_president_sign(obj), AP_complete(obj) }
            \cup { AP_sejm_vote(obj, v) : v \in Tallies }
            \cup { AP_senate_vote(obj, v) : v \in Tallies }
            \cup { AP_referendum_result(obj, b) : b \in BOOLEAN }

\* C6: no reachable non-terminal stage is a dead end: in each there is a
\* transition operation (with some tally where a vote is needed) that is legal
\* there, returns normally and changes the stage.
C6_NoDeadEnd ==
    (cls # "None" /\ self.stage \notin TerminalStages[cls])
        => \E r \in Outcomes(cls, self) :
              r.raised = "none" /\ r.self.stage # self.stage

\* A vetoed bill has left VETOED by a passing override and can be enacted.
C6_Witness ==
    /\ cls = "LegislativeProcess"
    /\ self.stage = "VETO_OVERRIDDEN"
    /\ call.op = "sejm_override_veto"
    /\ raised = "none"

\* ---------------------------------------------------------------- C7
HappyPath ==
    <<"INITIATED", "SEJM_DELIBERATION", "SEJM_PASSED", "SENATE_DELIBERATION",
      "SENATE_PASSED", "PRESIDENT_REVIEW", "SIGNED", "ENACTED">>

\* C7: in LegislativeProcess every call that changes the stage appends exactly
\* one history entry, every other call (the illegal ones among them) appends
\* none, so len(history) is the number of stage changes; the Sejm-pass /
\* Senate-accepts / sign / enact path ends at ENACTED with exactly 7 entries.
C7_HistoryCountsStageChanges ==
    /\ [][ (cls = "LegislativeProcess" /\ cls' = cls)
             => /\ IF self'.stage # self.stage
                   THEN Len(self'.history) = Len(self.history) + 1
                   ELSE self'.history = self.history
                /\ (raised' = "LegislativeProcessError"
                      => self'.history = self.history) ]_vars
    /\ [](cls = "LegislativeProcess" => Len(self.history) = Len(visited) - 1)
    /\ [](cls = "LegislativeProcess" /\ visited = HappyPath
            => self.stage = "ENACTED" /\ Len(self.history) = 7)

C7_Witness ==
    /\ cls = "LegislativeProcess"
    /\ visited = HappyPath
    /\ call.op = "enact"
    /\ raised = "none"
    /\ Len(self.history) = 7

\* ---------------------------------------------------------------- C8
IsPrefix(s, t) == Len(s) <= Len(t) /\ SubSeq(t, 1, Len(s)) = s

\* C8: in LegislativeProcess the history is an append-only chain that replays
\* the run: entries are never changed or removed, the first entry starts from
\* INITIATED, each entry starts from the stage the one before it led to, and
\* the last entry leads to the current stage.
C8_HistoryIsAppendOnlyChain ==
    /\ [][ (cls = "LegislativeProcess" /\ cls' = cls)
             => IsPrefix(self.history, self'.history) ]_vars
    /\ [](cls = "LegislativeProcess"
            => LET h == self.history
               IN  /\ h = <<>> => self.stage = "INITIATED"
                   /\ h # <<>> => /\ h[1].from = "INITIATED"
                                  /\ h[Len(h)].to = self.stage
                   /\ \A i \in 2..Len(h) : h[i].from = h[i - 1].to
                   /\ \A i \in 1..Len(h) : h[i].from = visited[i])

\* A second pass: the chain runs through the return to the Sejm.
C8_Witness ==
    /\ cls = "LegislativeProcess"
    /\ Len(self.history) = 9
    /\ self.history[8].from = "PARTIALLY_UNCONSTITUTIONAL"
    /\ self.history[8].to = "SEJM_DELIBERATION"
    /\ self.history[9].to = "SEJM_PASSED"
    /\ self.stage = "SEJM_PASSED"

\* ---------------------------------------------------------------- C9
\* The stages a history log leads through, in order.
ToStages(h) == [i \in 1..Len(h) |-> h[i].to]

\* C9 as stated: every machine exposes a transition history that grows by one
\* entry on every successful or rejecting transition and from which the stages
\* visited can be reconstructed.
C9_EveryMachineKeepsHistory ==
    cls # "None"
        => /\ "history" \in DOMAIN self
           /\ Len(self.history) = Len(visited) - 1
           /\ ToStages(self.history) = Tail(visited)

\* C9 as amended: only LegislativeProcess keeps a transition history (one entry
\* per successful or rejecting transition, from which the stages visited are
\* reconstructed); a GovernmentFormation has the one field stage, an
\* AmendmentProcess the fields initiator, affected_chapters, stage and
\* referendum_requested (and its title), and neither keeps a history.
C9_OnlyLegislativeProcessKeepsHistory ==
    /\ cls = "LegislativeProcess"
         => /\ DOMAIN self = {"stage", "history"}
            /\ Len(self.history) = Len(visited) - 1
            /\ ToStages(self.history) = Tail(visited)
    /\ cls = "GovernmentFormation" => DOMAIN self = {"stage"}
    /\ cls = "AmendmentProcess"
         => DOMAIN self = {"initiator", "affected_chapters", "stage",
                           "referendum_requested"}

\* A formation that went through four transitions and recorded none.
C9_Witness ==
    /\ cls = "GovernmentFormation"
    /\ self = [stage |-> "FAILED"]
    /\ Len(visited) = 5

\* --------------------------------------------------------------- C10
\* C10: after the tribunal rules the bill constitutional it is back at
\* PRESIDENT_REVIEW and the President can only sign: the stage that follows is
\* SIGNED, never VETOED and never REFERRED_TO_TRIBUNAL again.
C10_NoRefusalAfterConstitutionalRuling ==
    cls = "LegislativeProcess"
        => \A i \in 1..(Len(visited) - 2) :
              (visited[i] = "REFERRED_TO_TRIBUNAL" /\ visited[i + 1] = "PRESIDENT_REVIEW")
                  => visited[i + 2] = "SIGNED"

\* --------------------------------------------------------------- C11
\* The calls of a pass from SEJM_DELIBERATION to the President's desk, the
\* Senate accepting: sejm_vote(vote), send_to_senate, senate_accepts,
\* send_to_president.
PassToPresident(obj, vote) ==
    LET r1 == LP_sejm_vote(obj, vote)
        r2 == LP_send_to_senate(r1.self)
        r3 == LP_senate_accepts(r2.self)
        r4 == LP_send_to_president(r3.self)
    IN  <<r1, r2, r3, r4>>

\* ... followed by president_signs and enact.
PassToEnactment(obj, vote) ==
    LET r5 == LP_president_signs(PassToPresident(obj, vote)[4].self)
        r6 == LP_enact(r5.self)
    IN  PassToPresident(obj, vote) \o <<r5, r6>>

\* ... followed by a referral, a partial ruling and a return to the Sejm.
PassToReturn(obj, vote) ==
    LET r5 == LP_president_refers_to_tribunal(PassToPresident(obj, vote)[4].self)
        r6 == LP_tribunal_rules_partially_unconstitutional(r5.self)
        r7 == LP_president_returns_to_sejm(r6.self)
    IN  PassToPresident(obj, vote) \o <<r5, r6, r7>>

\* Every call of the sequence returned, and the last one left the stage `to`
\* with one history entry per call.
RunsTo(obj, rets, to) ==
    /\ \A i \in 1..Len(rets) : rets[i].raised = "none"
    /\ rets[Len(rets)].self.stage = to
    /\ Len(rets[Len(rets)].self.history) = Len(obj.history) + Len(rets)

\* visited[i] -> visited[i + 1] is a return to the Sejm.
ReturnAt(i) ==
    visited[i] = "PARTIALLY_UNCONSTITUTIONAL" /\ visited[i + 1] = "SEJM_DELIBERATION"

\* C11: president_returns_to_sejm at PARTIALLY_UNCONSTITUTIONAL is a back-edge
\* to SEJM_DELIBERATION (recorded in the history like any other transition);
\* from the stage it leads to the bill can make a full second pass to ENACTED
\* and can be returned once more; SEJM_PASSED is entered only by a sejm_vote at
\* SEJM_DELIBERATION whose tally meets quorum and SIMPLE majority, and an
\* enacted bill has entered SEJM_PASSED after every return it went through.
C11_ReturnToSejmIsBackEdge ==
    /\ [][ (/\ cls = "LegislativeProcess"
            /\ cls' = cls
            /\ call'.op = "president_returns_to_sejm"
            /\ self.stage = "PARTIALLY_UNCONSTITUTIONAL")
             => /\ raised' = "none"
                /\ self'.stage = "SEJM_DELIBERATION"
                /\ Len(self'.history) = Len(self.history) + 1
                /\ self'.history[Len(self'.history)].from = "PARTIALLY_UNCONSTITUTIONAL"
                /\ self'.history[Len(self'.history)].to = "SEJM_DELIBERATION" ]_vars
    /\ [][ (/\ cls = "LegislativeProcess"
            /\ cls' = cls
            /\ self'.stage = "SEJM_PASSED"
            /\ self.stage # "SEJM_PASSED")
             => /\ call'.op = "sejm_vote"
                /\ self.stage = "SEJM_DELIBERATION"
                /\ MeetsQuorum(call'.args[1])
                /\ MeetsMajority(call'.args[1], "SIMPLE") ]_vars
    /\ []( (/\ cls = "LegislativeProcess"
            /\ call.op = "president_returns_to_sejm"
            /\ raised = "none")
             => /\ self.stage = "SEJM_DELIBERATION"
                /\ \E vote \in SecondPassTallies :
                      RunsTo(self, PassToEnactment(self, vote), "ENACTED")
                /\ \E vote \in SecondPassTallies :
                      RunsTo(self, PassToReturn(self, vote), "SEJM_DELIBERATION") )
    /\ []( (cls = "LegislativeProcess" /\ self.stage = "ENACTED")
             => \A i \in 1..(Len(visited) - 1) :
                   ReturnAt(i) => \E j \in (i + 2)..Len(visited) :
                                     visited[j] = "SEJM_PASSED" )

\* A bill returned to the Sejm, passed again, accepted, signed and enacted:
\* 14 history entries.
C11_Witness ==
    /\ cls = "LegislativeProcess"
    /\ visited = <<"INITIATED", "SEJM_DELIBERATION", "SEJM_PASSED",
                   "SENATE_DELIBERATION", "SENATE_PASSED", "PRESIDENT_REVIEW",
                   "REFERRED_TO_TRIBUNAL", "PARTIALLY_UNCONSTITUTIONAL",
                   "SEJM_DELIBERATION", "SEJM_PASSED", "SENATE_DELIBERATION",
                   "SENATE_PASSED", "PRESIDENT_REVIEW", "SIGNED", "ENACTED">>
    /\ self.stage = "ENACTED"
    /\ Len(self.history) = 14
    /\ call.op = "enact"
    /\ raised = "none"

\* --------------------------------------------------------------- C12
\* The step is a method call that moves a LegislativeProcess into stage s.
LP_Enters(s) ==
    /\ cls = "LegislativeProcess"
    /\ cls' = cls
    /\ self'.stage = s
    /\ self.stage # s

\* C12: ENACTED is entered only by enact() called at SIGNED or VETO_OVERRIDDEN;
\* SIGNED only by a presidential signature, VETO_OVERRIDDEN only by a
\* sejm_override_veto at VETOED whose tally meets quorum and THREE_FIFTHS,
\* SEJM_PASSED only by a sejm_vote meeting quorum and SIMPLE majority; so every
\* enacted bill has been through SEJM_PASSED, then PRESIDENT_REVIEW, then SIGNED
\* or VETO_OVERRIDDEN as its last stage before ENACTED.
C12_EnactedOnlyByEnact ==
    /\ [][ LP_Enters("ENACTED")
             => /\ call'.op = "enact"
                /\ raised' = "none"
                /\ self.stage \in {"SIGNED", "VETO_OVERRIDDEN"} ]_vars
    /\ [][ LP_Enters("SIGNED")
             => /\ call'.op \in {"president_signs", "president_signs_with_exclusions"}
                /\ self.stage \in {"PRESIDENT_REVIEW", "PARTIALLY_UNCONSTITUTIONAL"} ]_vars
    /\ [][ LP_Enters("VETO_OVERRIDDEN")
             => /\ call'.op = "sejm_override_veto"
                /\ self.stage = "VETOED"
                /\ MeetsQuorum(call'.args[1])
                /\ MeetsMajority(call'.args[1], "THREE_FIFTHS") ]_vars
    /\ [][ LP_Enters("SEJM_PASSED")
             => /\ call'.op = "sejm_vote"
                /\ MeetsQuorum(call'.args[1])
                /\ MeetsMajority(call'.args[1], "SIMPLE") ]_vars
    /\ []( (cls = "LegislativeProcess" /\ self.stage = "ENACTED")
             => /\ visited[Len(visited)] = "ENACTED"
                /\ visited[Len(visited) - 1] \in {"SIGNED", "VETO_OVERRIDDEN"}
                /\ \E i, j \in 1..(Len(visited) - 2) :
                      /\ i < j
                      /\ visited[i] = "SEJM_PASSED"
                      /\ visited[j] = "PRESIDENT_REVIEW" )

\* A bill enacted over the President's veto.
C12_Witness ==
    /\ cls = "LegislativeProcess"
    /\ call.op = "enact"
    /\ raised = "none"
    /\ visited = <<"INITIATED", "SEJM_DELIBERATION", "SEJM_PASSED",
                   "SENATE_DELIBERATION", "SENATE_PASSED", "PRESIDENT_REVIEW",
                   "VETOED", "VETO_OVERRIDDEN", "ENACTED">>

\* --------------------------------------------------------------- C13
\* The last call was sejm_override_veto with the Sejm tally for/against/abstain,
\* made at VETOED (it left VETOED, and was not refused as illegal).
OverrideVetoCalledWith(for, against, abstain) ==
    /\ cls = "LegislativeProcess"
    /\ call.op = "sejm_override_veto"
    /\ call.args[1] = VoteRecord("SEJM", for, against, abstain)
    /\ raised # "LegislativeProcessError"
    /\ Len(visited) >= 2
    /\ visited[Len(visited) - 1] = "VETOED"

\* C13: sejm_override_veto called at VETOED (with a Sejm tally) moves to
\* VETO_OVERRIDDEN iff the tally meets quorum and votes_for * 5 >=
\* total_present * 3, and otherwise moves to REJECTED and raises the vote error;
\* 280/160/20 reaches VETO_OVERRIDDEN, from where enact leads to ENACTED, and
\* 250/180/10 ends in REJECTED with MajorityError.
C13_VetoOverrideNeedsThreeFifths ==
    /\ [][ LET vote == call'.args[1]
           IN  (VoteCall("LegislativeProcess", "sejm_override_veto")
                   /\ vote.chamber = "SEJM")
                 => /\ (self'.stage = "VETO_OVERRIDDEN") =
                         (/\ Present(vote) * 2 >= SEJM_MEMBERS
                          /\ vote.votes_for * 5 >= Present(vote) * 3)
                    /\ (self'.stage = "VETO_OVERRIDDEN") => raised' = "none"
                    /\ (self'.stage # "VETO_OVERRIDDEN")
                         => /\ self'.stage = "REJECTED"
                            /\ raised' = VoteError(vote, "THREE_FIFTHS")
                            /\ raised' \in {"QuorumError", "MajorityError"} ]_vars
    /\ []( OverrideVetoCalledWith(280, 160, 20)
             => /\ self.stage = "VETO_OVERRIDDEN"
                /\ raised = "none"
                /\ LP_enact(self).raised = "none"
                /\ LP_enact(self).self.stage = "ENACTED" )
    /\ []( OverrideVetoCalledWith(250, 180, 10)
             => /\ self.stage = "REJECTED"
                /\ raised = "MajorityError" )

\* The veto overridden by 280 of the 460 deputies present.
C13_Witness ==
    /\ OverrideVetoCalledWith(280, 160, 20)
    /\ self.stage = "VETO_OVERRIDDEN"
    /\ raised = "none"
    /\ Len(self.history) = 7

\* --------------------------------------------------------------- C14
SenateObjected == {"SENATE_AMENDED", "SENATE_REJECTED"}

\* C14: a bill the Senate amended or rejected reaches PRESIDENT_REVIEW only
\* through a sejm_override_senate vote meeting quorum and ABSOLUTE majority
\* (votes_for * 2 > members): at SENATE_AMENDED and SENATE_REJECTED
\* send_to_president is illegal, the only call that changes the stage is
\* sejm_override_senate, which (with a Sejm tally) moves to SEJM_OVERRIDE_VOTE iff
\* the tally passes and to REJECTED otherwise; PRESIDENT_REVIEW is entered by
\* send_to_president only from SENATE_PASSED or SEJM_OVERRIDE_VOTE.
C14_SenateObjectionNeedsOverride ==
    /\ [][ (/\ cls = "LegislativeProcess"
            /\ cls' = cls
            /\ self.stage \in SenateObjected
            /\ call'.op = "send_to_president")
             => /\ raised' = "LegislativeProcessError"
                /\ self' = self ]_vars
    /\ [][ (/\ cls = "LegislativeProcess"
            /\ cls' = cls
            /\ self.stage \in SenateObjected
            /\ self'.stage # self.stage)
             => /\ call'.op = "sejm_override_senate"
                /\ self'.stage \in {"SEJM_OVERRIDE_VOTE", "REJECTED"} ]_vars
    /\ [][ LET vote == call'.args[1]
           IN  (VoteCall("LegislativeProcess", "sejm_override_senate")
                   /\ vote.chamber = "SEJM")
                 => /\ (self'.stage = "SEJM_OVERRIDE_VOTE") =
                         (/\ Present(vote) * 2 >= SEJM_MEMBERS
                          /\ vote.votes_for * 2 > SEJM_MEMBERS)
                    /\ (self'.stage = "SEJM_OVERRIDE_VOTE") => raised' = "none"
                    /\ (self'.stage # "SEJM_OVERRIDE_VOTE")
                         => /\ self'.stage = "REJECTED"
                            /\ raised' = VoteError(vote, "ABSOLUTE") ]_vars
    /\ [][ LP_Enters("SEJM_OVERRIDE_VOTE")
             => /\ call'.op = "sejm_override_senate"
                /\ self.stage \in SenateObjected
                /\ MeetsQuorum(call'.args[1])
                /\ MeetsMajority(call'.args[1], "ABSOLUTE") ]_vars
    /\ [][ (LP_Enters("PRESIDENT_REVIEW") /\ call'.op = "send_to_president")
             => self.stage \in {"SENATE_PASSED", "SEJM_OVERRIDE_VOTE"} ]_vars
    /\ []( cls = "LegislativeProcess"
             => \A i \in 1..(Len(visited) - 1) :
                   visited[i] \in SenateObjected
                     => visited[i + 1] \in {"SEJM_OVERRIDE_VOTE", "REJECTED"} )

\* The Sejm overrode the Senate's rejection and the bill went to the President.
C14_Witness ==
    /\ cls = "LegislativeProcess"
    /\ call.op = "send_to_president"
    /\ raised = "none"
    /\ visited = <<"INITIATED", "SEJM_DELIBERATION", "SEJM_PASSED",
                   "SENATE_DELIBERATION", "SENATE_REJECTED", "SEJM_OVERRIDE_VOTE",
                   "PRESIDENT_REVIEW">>

\* --------------------------------------------------------------- C15
\* C15: sejm_vote called at SEJM_DELIBERATION (with a Sejm tally) moves to
\* SEJM_PASSED iff total_present * 2 >= members and votes_for > votes_against;
\* any other tally moves the stage to REJECTED, recorded in the history, and
\* raises QuorumError (quorum missed) or MajorityError.
C15_SejmVoteNeedsQuorumAndSimpleMajority ==
    [][ LET vote == call'.args[1]
            passed == /\ Present(vote) * 2 >= SEJM_MEMBERS
                      /\ vote.votes_for > vote.votes_against
        IN  (VoteCall("LegislativeProcess", "sejm_vote") /\ vote.chamber = "SEJM")
              => /\ self.stage = "SEJM_DELIBERATION"
                 /\ Len(self'.history) = Len(self.history) + 1
                 /\ IF passed
                    THEN /\ self'.stage = "SEJM_PASSED"
                         /\ raised' = "none"
                    ELSE /\ self'.stage = "REJECTED"
                         /\ raised' = IF Present(vote) * 2 < SEJM_MEMBERS
                                      THEN "QuorumError" ELSE "MajorityError" ]_vars

\* 200 for and 29 against: a majority of those voting, one deputy short of a quorum.
C15_Witness ==
    /\ cls = "LegislativeProcess"
    /\ call.op = "sejm_vote"
    /\ call.args[1] = VoteRecord("SEJM", 200, 29, 0)
    /\ raised = "QuorumError"
    /\ self.stage = "REJECTED"
    /\ visited = <<"INITIATED", "SEJM_DELIBERATION", "REJECTED">>

\* --------------------------------------------------------------- C16
\* The tally has a quorum and more votes for than against, yet not more than
\* half of the chamber's members for.
SimpleButNotAbsolute(v) ==
    /\ Present(v) * 2 >= StatutoryMembers(v)
    /\ v.votes_for > v.votes_against
    /\ v.votes_for * 2 <= StatutoryMembers(v)

\* The three attempts made one after another from obj, each with the tally v.
ThreeAttempts(obj, v) ==
    LET r1 == GF_sejm_confidence_first_attempt(obj, v)
        r2 == GF_sejm_elects_pm(r1.self, v)
        r3 == GF_president_appoints_third_attempt(r2.self, v)
    IN  <<r1, r2, r3>>

\* C16: sejm_confidence_first_attempt and sejm_elects_pm move to APPOINTED iff
\* the tally meets quorum and ABSOLUTE majority, president_appoints_third_attempt
\* iff it meets quorum and SIMPLE majority (each moving to the next attempt, or
\* FAILED, otherwise); so a tally with votes_for > votes_against, a quorum and
\* votes_for * 2 <= members fails attempts 1 and 2 and succeeds at attempt 3.
C16_ThirdAttemptNeedsOnlySimpleMajority ==
    /\ [][ \A op \in {"sejm_confidence_first_attempt", "sejm_elects_pm"} :
             LET vote == call'.args[1]
             IN  VoteCall("GovernmentFormation", op)
                   => /\ (self'.stage = "APPOINTED") =
                           (/\ Present(vote) * 2 >= StatutoryMembers(vote)
                            /\ vote.votes_for * 2 > StatutoryMembers(vote))
                      /\ self'.stage \in {"APPOINTED", VoteRule.GovernmentFormation[op].fail}
         ]_vars
    /\ [][ LET vote == call'.args[1]
           IN  VoteCall("GovernmentFormation", "president_appoints_third_attempt")
                 => /\ (self'.stage = "APPOINTED") =
                         (/\ Present(vote) * 2 >= StatutoryMembers(vote)
                          /\ vote.votes_for > vote.votes_against)
                    /\ self'.stage \in {"APPOINTED", "FAILED"} ]_vars
    /\ []( (cls = "GovernmentFormation" /\ self.stage = "CONFIDENCE_VOTE")
             => \A v \in Tallies :
                   SimpleButNotAbsolute(v)
                     => /\ ThreeAttempts(self, v)[1].self.stage = "SEJM_ELECTS"
                        /\ ThreeAttempts(self, v)[2].self.stage = "PRESIDENT_APPOINTS_RETRY"
                        /\ ThreeAttempts(self, v)[3].self.stage = "APPOINTED" )

\* A government appointed at the third attempt by 230 votes to 200: half of the
\* 460 deputies, not more.
C16_Witness ==
    /\ cls = "GovernmentFormation"
    /\ call.op = "president_appoints_third_attempt"
    /\ call.args[1] = VoteRecord("SEJM", 230, 200, 0)
    /\ SimpleButNotAbsolute(call.args[1])
    /\ raised = "none"
    /\ visited = <<"PRESIDENT_DESIGNATES", "CONFIDENCE_VOTE", "SEJM_ELECTS",
                   "PRESIDENT_APPOINTS_RETRY", "APPOINTED">>

\* --------------------------------------------------------------- C17
\* The place of a stage in the fixed order of the formation procedure.
FormationOrder ==
    [PRESIDENT_DESIGNATES |-> 0, CONFIDENCE_VOTE |-> 1, SEJM_ELECTS |-> 2,
     PRESIDENT_APPOINTS_RETRY |-> 3, APPOINTED |-> 4, FAILED |-> 4]

\* C17: GovernmentFormation has no cycle: a legal operation returns and moves
\* the stage strictly forward in the order PRESIDENT_DESIGNATES,
\* CONFIDENCE_VOTE, SEJM_ELECTS, PRESIDENT_APPOINTS_RETRY, {APPOINTED, FAILED},
\* an illegal one changes nothing; so a run makes at most 4 legal operations,
\* the fourth ends in a terminal stage, and at most three of them (all but
\* president_designates) count a vote.
C17_FormationOnlyMovesForward ==
    /\ [][ (cls = "GovernmentFormation" /\ cls' = cls)
             => IF self.stage \in PermittedStages.GovernmentFormation[call'.op]
                THEN /\ raised' = "none"
                     /\ FormationOrder[self'.stage] > FormationOrder[self.stage]
                     /\ Len(visited') = Len(visited) + 1
                     /\ (call'.op \in DOMAIN VoteRule.GovernmentFormation)
                          = (Len(visited) >= 2)
                ELSE /\ self' = self
                     /\ visited' = visited ]_vars
    /\ []( cls = "GovernmentFormation"
             => /\ Len(visited) <= 5
                /\ Len(visited) - 2 <= 3
                /\ \A i \in 1..Len(visited) : FormationOrder[visited[i]] >= i - 1
                /\ \A i \in 1..(Len(visited) - 1) :
                      FormationOrder[visited[i]] < FormationOrder[visited[i + 1]]
                /\ Len(visited) = 5
                     => self.stage \in TerminalStages.GovernmentFormation )

\* After four legal operations and three votes the formation has failed, and
\* designating again is refused.
C17_Witness ==
    /\ cls = "GovernmentFormation"
    /\ Len(visited) = 5
    /\ self.stage = "FAILED"
    /\ call.op = "president_designates"
    /\ raised = "GovernmentFormationError"

\* --------------------------------------------------------------- C18
\* Chapters I, II and XII, whose amendment may be put to a referendum.
ProtectedChapters == {1, 2, 12}

\* C18: request_referendum succeeds, moving to REFERENDUM_REQUESTED and setting
\* referendum_requested, iff the stage is SENATE_PASSED and affected_chapters
\* intersects {1, 2, 12}; otherwise it raises AmendmentError and changes
\* nothing, so an amendment touching no protected chapter stays at
\* SENATE_PASSED with referendum_requested false.
C18_ReferendumOnlyForProtectedChapters ==
    /\ [][ (/\ cls = "AmendmentProcess"
            /\ cls' = cls
            /\ call'.op = "request_referendum")
             => IF /\ self.stage = "SENATE_PASSED"
                   /\ (self.affected_chapters \cap ProtectedChapters) # {}
                THEN /\ raised' = "none"
                     /\ self' = [self EXCEPT !.stage = "REFERENDUM_REQUESTED",
                                             !.referendum_requested = TRUE]
                ELSE /\ raised' = "AmendmentError"
                     /\ self' = self ]_vars
    /\ []( (/\ cls = "AmendmentProcess"
            /\ (self.affected_chapters \cap ProtectedChapters) = {})
             => /\ self.referendum_requested = FALSE
                /\ "REFERENDUM_REQUESTED" \notin { visited[i] : i \in 1..Len(visited) } )

\* An amendment of chapter IV passed by both chambers: the referendum is refused.
C18_Witness ==
    /\ cls = "AmendmentProcess"
    /\ call.op = "request_referendum"
    /\ raised = "AmendmentError"
    /\ self.affected_chapters = {4}
    /\ self.stage = "SENATE_PASSED"
    /\ self.referendum_requested = FALSE
    /\ visited = <<"INITIATED", "FIRST_READING_SEJM", "SEJM_PASSED", "SENATE_PASSED">>

\* --------------------------------------------------------------- C19
\* The step is a method call that moves an AmendmentProcess into stage s.
AP_Enters(s) ==
    /\ cls = "AmendmentProcess"
    /\ cls' = cls
    /\ self'.stage = s
    /\ self.stage # s

DirectSignaturePath ==
    <<"INITIATED", "FIRST_READING_SEJM", "SEJM_PASSED", "SENATE_PASSED",
      "PRESIDENT_SIGNS", "ADOPTED">>

ReferendumPath ==
    <<"INITIATED", "FIRST_READING_SEJM", "SEJM_PASSED", "SENATE_PASSED",
      "REFERENDUM_REQUESTED", "REFERENDUM_PASSED", "PRESIDENT_SIGNS", "ADOPTED">>

\* From obj: president_sign, complete.
SignAndComplete(obj) ==
    LET r1 == AP_president_sign(obj)
        r2 == AP_complete(r1.self)
    IN  <<r1, r2>>

\* From obj: request_referendum, referendum_result(True), president_sign,
\* complete.
ReferendumSignAndComplete(obj) ==
    LET r1 == AP_request_referendum(obj)
        r2 == AP_referendum_result(r1.self, TRUE)
    IN  <<r1, r2>> \o SignAndComplete(r2.self)

\* Every call of the sequence returned and the last one left the stage ADOPTED.
Adopts(rets) ==
    /\ \A i \in 1..Len(rets) : rets[i].raised = "none"
    /\ rets[Len(rets)].self.stage = "ADOPTED"

\* C19: ADOPTED is entered only by complete at PRESIDENT_SIGNS, PRESIDENT_SIGNS
\* only by president_sign at SENATE_PASSED or REFERENDUM_PASSED, SENATE_PASSED
\* only by a senate_vote at SEJM_PASSED meeting quorum and ABSOLUTE majority,
\* SEJM_PASSED only by a sejm_vote meeting quorum and TWO_THIRDS; an adopted
\* amendment went the direct-signature path or the referendum path; and an
\* amendment of a protected chapter at SENATE_PASSED can be adopted either way.
C19_AdoptedOnlyThroughBothChambers ==
    /\ [][ AP_Enters("ADOPTED")
             => call'.op = "complete" /\ self.stage = "PRESIDENT_SIGNS" ]_vars
    /\ [][ AP_Enters("PRESIDENT_SIGNS")
             => /\ call'.op = "president_sign"
                /\ self.stage \in {"SENATE_PASSED", "REFERENDUM_PASSED"} ]_vars
    /\ [][ AP_Enters("SENATE_PASSED")
             => /\ call'.op = "senate_vote"
                /\ self.stage = "SEJM_PASSED"
                /\ MeetsQuorum(call'.args[1])
                /\ MeetsMajority(call'.args[1], "ABSOLUTE") ]_vars
    /\ [][ AP_Enters("SEJM_PASSED")
             => /\ call'.op = "sejm_vote"
                /\ MeetsQuorum(call'.args[1])
                /\ MeetsMajority(call'.args[1], "TWO_THIRDS") ]_vars
    /\ []( (cls = "AmendmentProcess" /\ self.stage = "ADOPTED")
             => /\ visited \in {DirectSignaturePath, ReferendumPath}
                /\ visited = ReferendumPath
                     => (self.affected_chapters \cap ProtectedChapters) # {} )
    /\ []( (/\ cls = "AmendmentProcess"
            /\ self.stage = "SENATE_PASSED"
            /\ (self.affected_chapters \cap ProtectedChapters) # {})
             => /\ Adopts(SignAndComplete(self))
                /\ Adopts(ReferendumSignAndComplete(self)) )

\* An amendment of chapter I adopted on the President's signature, no
\* referendum having been requested.
C19_Witness ==
    /\ cls = "AmendmentProcess"
    /\ self.stage = "ADOPTED"
    /\ self.affected_chapters = {1}
    /\ self.referendum_requested = FALSE
    /\ visited = DirectSignaturePath
    /\ call.op = "complete"
    /\ raised = "none"

\* --------------------------------------------------------------- C20
\* Who may submit a bill to amend the Constitution (Art. 235(1)).
AmendmentInitiators == {"1/5 Sejm deputies", "Senate", "President"}

\* C20: AmendmentProcess(title, initiator, affected_chapters) with an initiator
\* outside {"1/5 Sejm deputies", "Senate", "President"} raises AmendmentError
\* and no instance comes to exist; with an initiator inside the set it returns
\* an instance at stage INITIATED, with the initiator and chapters given and
\* referendum_requested false.
C20_InitiatorCheckedAtConstruction ==
    [][ (cls = "None" /\ call'.op = "AmendmentProcess")
          => IF call'.args[1] \in AmendmentInitiators
             THEN /\ raised' = "none"
                  /\ cls' = "AmendmentProcess"
                  /\ self' = [initiator |-> call'.args[1],
                              affected_chapters |-> call'.args[2],
                              stage |-> "INITIATED",
                              referendum_requested |-> FALSE]
             ELSE /\ raised' = "AmendmentError"
                  /\ cls' = "None"
                  /\ self' = <<>>
                  /\ visited' = <<>> ]_vars

\* An amendment submitted by citizens: the constructor raised.
C20_Witness ==
    /\ cls = "None"
    /\ self = <<>>
    /\ call.op = "AmendmentProcess"
    /\ call.args[1] = "Citizens"
    /\ raised = "AmendmentError"

\* --------------------------------------------------------------- C21
\* C21: check_quorum returns iff total_present * 2 >= members, where
\* total_present is votes_for + votes_against + votes_abstain, and raises
\* QuorumError otherwise; 230 present of 460 pass, 229 do not.
C21_QuorumIffHalfPresent ==
    call.op = "check_quorum" =>
        LET vote == call.args[1]
            present == vote.votes_for + vote.votes_against + vote.votes_abstain
        IN  /\ raised = IF present * 2 >= StatutoryMembers(vote)
                        THEN "none" ELSE "QuorumError"
            /\ vote.chamber = "SEJM" /\ present = 230 => raised = "none"
            /\ vote.chamber = "SEJM" /\ present = 229 => raised = "QuorumError"

\* Exactly half of the Sejm present: the check returns.
C21_Witness ==
    /\ call = Call("check_quorum", <<VoteRecord("SEJM", 200, 30, 0)>>)
    /\ raised = "none"

\* --------------------------------------------------------------- C22
\* C22: check_majority with SIMPLE returns iff votes_for > votes_against and
\* raises MajorityError otherwise; a tie fails, and no tally with the same
\* votes for and against (whatever its abstentions or its chamber) ends
\* differently.
C22_SimpleIffMoreForThanAgainst ==
    call.op = "check_majority" /\ call.args[2] = "SIMPLE" =>
        LET vote == call.args[1]
        IN  /\ raised = IF vote.votes_for > vote.votes_against
                        THEN "none" ELSE "MajorityError"
            /\ vote.votes_for = vote.votes_against => raised = "MajorityError"
            /\ \A other \in VotingTallies :
                    /\ other.votes_for = vote.votes_for
                    /\ other.votes_against = vote.votes_against
                    => check_majority(other, "SIMPLE") = raised

\* 100 for, 99 against and 231 abstentions: the majority is reached.
C22_Witness ==
    /\ call = Call("check_majority", <<VoteRecord("SEJM", 100, 99, 231), "SIMPLE">>)
    /\ raised = "none"

\* --------------------------------------------------------------- C23
\* C23: check_majority with ABSOLUTE returns iff votes_for * 2 > members,
\* however many are present; 230 of 460 and 50 of 100 fail, 231 and 51 pass.
C23_AbsoluteIffMoreThanHalfOfMembers ==
    call.op = "check_majority" /\ call.args[2] = "ABSOLUTE" =>
        LET vote == call.args[1]
        IN  /\ raised = IF vote.votes_for * 2 > StatutoryMembers(vote)
                        THEN "none" ELSE "MajorityError"
            /\ vote.chamber = "SEJM" /\ vote.votes_for = 230 => raised = "MajorityError"
            /\ vote.chamber = "SEJM" /\ vote.votes_for = 231 => raised = "none"
            /\ vote.chamber = "SENATE" /\ vote.votes_for = 50 => raised = "MajorityError"
            /\ vote.chamber = "SENATE" /\ vote.votes_for = 51 => raised = "none"

\* 230 deputies for and nobody else present: unanimous, and not a majority.
C23_Witness ==
    /\ call = Call("check_majority", <<VoteRecord("SEJM", 230, 0, 0), "ABSOLUTE">>)
    /\ raised = "MajorityError"

\* --------------------------------------------------------------- C24
\* C24: check_majority with TWO_THIRDS returns iff
\* votes_for * 3 >= total_present * 2; 200 for of 300 present pass, 199 of
\* 300 do not.
C24_TwoThirdsOfPresentInclusive ==
    call.op = "check_majority" /\ call.args[2] = "TWO_THIRDS" =>
        LET vote == call.args[1]
            present == vote.votes_for + vote.votes_against + vote.votes_abstain
        IN  /\ raised = IF vote.votes_for * 3 >= present * 2
                        THEN "none" ELSE "MajorityError"
            /\ vote.votes_for = 200 /\ present = 300 => raised = "none"
            /\ vote.votes_for = 199 /\ present = 300 => raised = "MajorityError"

\* Exactly two thirds of 300 present.
C24_Witness ==
    /\ call = Call("check_majority", <<VoteRecord("SEJM", 200, 100, 0), "TWO_THIRDS">>)
    /\ raised = "none"

\* --------------------------------------------------------------- C25
\* C25: check_majority with THREE_FIFTHS returns iff
\* votes_for * 5 >= total_present * 3; 276 for of 460 present pass, 275 of
\* 460 do not.
C25_ThreeFifthsOfPresentInclusive ==
    call.op = "check_majority" /\ call.args[2] = "THREE_FIFTHS" =>
        LET vote == call.args[1]
            present == vote.votes_for + vote.votes_against + vote.votes_abstain
        IN  /\ raised = IF vote.votes_for * 5 >= present * 3
                        THEN "none" ELSE "MajorityError"
            /\ vote.votes_for = 276 /\ present = 460 => raised = "none"
            /\ vote.votes_for = 275 /\ present = 460 => raised = "MajorityError"

\* Exactly three fifths of a full Sejm.
C25_Witness ==
    /\ call = Call("check_majority", <<VoteRecord("SEJM", 276, 184, 0), "THREE_FIFTHS">>)
    /\ raised = "none"

\* --------------------------------------------------------------- C26
\* C26: passes_vote with require_quorum true raises QuorumError for every
\* tally short of a quorum, whether or not the tally also misses the
\* majority, raises MajorityError for a tally that has the quorum and misses
\* the majority, and returns otherwise; with require_quorum false it ends as
\* check_majority alone does.
C26_QuorumBeforeMajority ==
    call.op = "passes_vote" =>
        LET vote == call.args[1]
            kind == call.args[2]
            require_quorum == call.args[3]
        IN  /\ require_quorum /\ ~MeetsQuorum(vote) => raised = "QuorumError"
            /\ require_quorum /\ MeetsQuorum(vote) /\ ~MeetsMajority(vote, kind)
                    => raised = "MajorityError"
            /\ require_quorum /\ MeetsQuorum(vote) /\ MeetsMajority(vote, kind)
                    => raised = "none"
            /\ ~require_quorum =>
                    raised = IF MeetsMajority(vote, kind) THEN "none" ELSE "MajorityError"

\* 201 deputies present, more against than for: the quorum is what is reported.
C26_Witness ==
    /\ call = Call("passes_vote", <<VoteRecord("SEJM", 100, 101, 0), "SIMPLE", TRUE>>)
    /\ raised = "QuorumError"

\* --------------------------------------------------------------- C27
\* A transition operation called in a stage that is not one of its permitted
\* source stages.
IllegalCall == MethodCall /\ self.stage \notin PermittedStages[cls][call'.op]

\* C27 as stated: in every machine (AmendmentProcess included) the error raised
\* for an illegal transition carries the actual stage and the set of stages the
\* operation expects.
C27_ErrorNamesActualAndExpected ==
    [][ IllegalCall
            => /\ raised' = ProcessError[cls]
               /\ "actual" \in DOMAIN message'
               /\ message'.actual = self.stage
               /\ "expected" \in DOMAIN message'
               /\ message'.expected = PermittedStages[cls][call'.op] ]_vars

\* C27 as amended: the error raised for an illegal transition carries the actual
\* stage in every machine; in LegislativeProcess and GovernmentFormation it
\* also carries the stages the operation expects, in AmendmentProcess it
\* carries the actual stage and nothing else.
C27_AmendmentErrorNamesActualOnly ==
    [][ IllegalCall
            => /\ raised' = ProcessError[cls]
               /\ "actual" \in DOMAIN message'
               /\ message'.actual = self.stage
               /\ IF cls = "AmendmentProcess"
                  THEN DOMAIN message' = {"actual"}
                  ELSE /\ "expected" \in DOMAIN message'
                       /\ message'.expected = PermittedStages[cls][call'.op] ]_vars

\* sejm_vote on an amendment that has had no first reading.
C27_Witness ==
    /\ cls = "AmendmentProcess"
    /\ call.op = "sejm_vote"
    /\ self.stage = "INITIATED"
    /\ raised = "AmendmentError"
    /\ message = [actual |-> "INITIATED"]

\* --------------------------------------------------------------- C28
\* What the claim names of instance j: its stage, its history (the entries of
\* the list it refers to) and its referendum_requested flag, where the class
\* has them.
Observed(instances, memory, j) ==
    LET fields == instances[j].fields
    IN  [stage |-> fields.stage,
         history |-> IF "history" \in DOMAIN fields
                     THEN memory[fields.history] ELSE <<>>,
         referendum_requested |-> IF "referendum_requested" \in DOMAIN fields
                                  THEN fields.referendum_requested ELSE FALSE]

ConstructorCall ==
    call'.op \in {"LegislativeProcess", "GovernmentFormation", "AmendmentProcess"}

\* C28: for any two instances, of the same class or of different classes, two
\* LegislativeProcess instances constructed with the default history included,
\* a method call on one of them (and the construction of the other) leaves
\* the stage, the history and the referendum_requested flag of the other as
\* they were.
C28_InstancesShareNoState ==
    [][ \A j \in DOMAIN objs :
            (ConstructorCall \/ call'.args[1] # j)
                => Observed(objs', heap', j) = Observed(objs, heap, j) ]_vars

\* Two bills with default histories: the second has been through two
\* transitions, the first has had none.
C28_Witness ==
    /\ Len(objs) = 2
    /\ objs[1].cls = "LegislativeProcess"
    /\ objs[2].cls = "LegislativeProcess"
    /\ call.op = "sejm_vote"
    /\ call.args[1] = 2
    /\ raised = "none"
    /\ Len(heap[objs[2].fields.history]) = 2
    /\ heap[objs[1].fields.history] = <<>>
    /\ objs[1].fields.stage = "INITIATED"

\* --------------------------------------------------------------- C29
\* C29: in LegislativeProcess and AmendmentProcess a vote-bearing operation
\* called in a stage that is not one of its permitted source stages, with a
\* tally that misses the quorum or the majority the operation asks for, raises
\* the machine's process error (not QuorumError, not MajorityError) and
\* leaves the stage where it was, so the machine does not move to REJECTED.
C29_StageCheckedBeforeTally ==
    [][ \A c \in {"LegislativeProcess", "AmendmentProcess"} :
          \A op \in DOMAIN VoteRule[c] :
            (/\ cls = c
             /\ IllegalCall
             /\ call'.op = op
             /\ VoteError(call'.args[1], VoteRule[c][op].kind) # "none")
                => /\ raised' = ProcessError[c]
                   /\ self'.stage = self.stage ]_vars

\* sejm_vote on an amendment before its first reading, with 150 for and 200
\* against.
C29_Witness ==
    /\ cls = "AmendmentProcess"
    /\ call.op = "sejm_vote"
    /\ call.args[1] = VoteRecord("SEJM", 150, 200, 80)
    /\ raised = "AmendmentError"
    /\ self.stage = "INITIATED"

\* --------------------------------------------------------------- C30
\* Where each operation that is legal after a referral leads.
RulingLeadsTo ==
    [REFERRED_TO_TRIBUNAL |->
        [tribunal_rules_constitutional |-> "PRESIDENT_REVIEW",
         tribunal_rules_unconstitutional |-> "REJECTED",
         tribunal_rules_partially_unconstitutional |-> "PARTIALLY_UNCONSTITUTIONAL"],
     PARTIALLY_UNCONSTITUTIONAL |->
        [president_signs_with_exclusions |-> "SIGNED",
         president_returns_to_sejm |-> "SEJM_DELIBERATION"]]

\* C30: in LegislativeProcess, at REFERRED_TO_TRIBUNAL the three ruling
\* operations, and no other operation, are legal, and they lead to
\* PRESIDENT_REVIEW (constitutional), REJECTED (unconstitutional, nothing
\* raised, one history entry appended) and PARTIALLY_UNCONSTITUTIONAL; at
\* PARTIALLY_UNCONSTITUTIONAL president_signs_with_exclusions (to SIGNED) and
\* president_returns_to_sejm (to SEJM_DELIBERATION), and no other operation,
\* are legal.
C30_RulingsAndTheirSequels ==
    [][ \A at \in DOMAIN RulingLeadsTo :
            (MethodCall /\ cls = "LegislativeProcess" /\ self.stage = at)
                => IF call'.op \in DOMAIN RulingLeadsTo[at]
                   THEN /\ raised' = "none"
                        /\ self'.stage = RulingLeadsTo[at][call'.op]
                        /\ Len(self'.history) = Len(self.history) + 1
                        /\ SubSeq(self'.history, 1, Len(self.history)) = self.history
                   ELSE /\ raised' = "LegislativeProcessError"
                        /\ self'.stage = at
                        /\ self'.history = self.history ]_vars

\* The Tribunal struck the bill down: REJECTED with nothing raised, the ruling
\* the seventh entry of the history.
C30_Witness ==
    /\ cls = "LegislativeProcess"
    /\ call.op = "tribunal_rules_unconstitutional"
    /\ raised = "none"
    /\ self.stage = "REJECTED"
    /\ Len(self.history) = 7
    /\ self.history[7].from = "REFERRED_TO_TRIBUNAL"

\* --------------------------------------------------------------- C31
\* C31: in AmendmentProcess, referendum_result called at REFERENDUM_REQUESTED
\* moves to REFERENDUM_PASSED when approved is true and to REJECTED when it is
\* false, and raises nothing either way; once a referendum has been requested,
\* president_sign raises AmendmentError and leaves the stage alone unless the
\* stage is REFERENDUM_PASSED, which only referendum_result(True) enters.
C31_ReferendumResultDecides ==
    [][ (MethodCall /\ cls = "AmendmentProcess")
            => /\ (call'.op = "referendum_result" /\ self.stage = "REFERENDUM_REQUESTED")
                    => /\ raised' = "none"
                       /\ self'.stage = IF call'.args[1] THEN "REFERENDUM_PASSED"
                                                         ELSE "REJECTED"
               /\ (call'.op = "president_sign" /\ self.referendum_requested)
                    => IF self.stage = "REFERENDUM_PASSED"
                       THEN raised' = "none" /\ self'.stage = "PRESIDENT_SIGNS"
                       ELSE raised' = "AmendmentError" /\ self'.stage = self.stage
               /\ (self'.stage = "REFERENDUM_PASSED" /\ self.stage # "REFERENDUM_PASSED")
                    => /\ call'.op = "referendum_result"
                       /\ call'.args[1]
                       /\ self.stage = "REFERENDUM_REQUESTED" ]_vars

\* The referendum went against the amendment: REJECTED, nothing raised.
C31_Witness ==
    /\ cls = "AmendmentProcess"
    /\ call.op = "referendum_result"
    /\ call.args[1] = FALSE
    /\ raised = "none"
    /\ self.stage = "REJECTED"
    /\ self.referendum_requested
    /\ visited[Len(visited) - 1] = "REFERENDUM_REQUESTED"

\* --------------------------------------------------------------- C32
\* C32: in LegislativeProcess, senate_amends or senate_rejects called at
\* SENATE_DELIBERATION with a Senate tally that misses the quorum or the SIMPLE
\* majority raises the vote error and leaves the stage at SENATE_DELIBERATION
\* and the history as it was; senate_accepts, senate_amends and senate_rejects
\* are all still legal on the instance after the call.
C32_FailedSenateVoteChangesNothing ==
    [][ \A op \in {"senate_amends", "senate_rejects"} :
          LET vote == call'.args[1]
          IN  (/\ VoteCall("LegislativeProcess", op)
               /\ vote.chamber = "SENATE"
               /\ VoteError(vote, "SIMPLE") # "none")
                => /\ raised' = VoteError(vote, "SIMPLE")
                   /\ self'.stage = "SENATE_DELIBERATION"
                   /\ self'.history = self.history
                   /\ LP_senate_accepts(self').raised = "none"
                   /\ \A again \in SenateTallies :
                        /\ LP_senate_amends(self', again).raised # "LegislativeProcessError"
                        /\ LP_senate_rejects(self', again).raised # "LegislativeProcessError"
                        /\ VoteError(again, "SIMPLE") = "none"
                            => /\ LP_senate_amends(self', again).self.stage = "SENATE_AMENDED"
                               /\ LP_senate_rejects(self', again).self.stage
                                    = "SENATE_REJECTED" ]_vars

\* A rejection put to 40 senators: no quorum, and the bill is still before the
\* Senate with its three history entries.
C32_Witness ==
    /\ cls = "LegislativeProcess"
    /\ call.op = "senate_rejects"
    /\ call.args[1] = VoteRecord("SENATE", 30, 10, 0)
    /\ raised = "QuorumError"
    /\ self.stage = "SENATE_DELIBERATION"
    /\ Len(self.history) = 3

\* --------------------------------------------------------------- C33
\* C33: in LegislativeProcess and AmendmentProcess a vote-bearing operation
\* called in one of its permitted stages with a tally of the other chamber
\* raises AssertionError, whether or not the tally would pass the vote, and
\* leaves stage and history as they were: the machine moves neither to
\* REJECTED nor forward.
C33_WrongChamberChangesNothing ==
    [][ \A c \in {"LegislativeProcess", "AmendmentProcess"} :
          \A op \in DOMAIN VoteRule[c] :
            (VoteCall(c, op) /\ call'.args[1].chamber # VoteRule[c][op].chamber)
                => /\ raised' = "AssertionError"
                   /\ self'.stage = self.stage
                   /\ self' = self ]_vars

\* The Sejm's third reading given a Senate tally that would have failed the
\* vote: the bill is still in deliberation, with the one history entry.
C33_Witness ==
    /\ cls = "LegislativeProcess"
    /\ call.op = "sejm_vote"
    /\ call.args[1] = VoteRecord("SENATE", 40, 55, 5)
    /\ raised = "AssertionError"
    /\ self.stage = "SEJM_DELIBERATION"
    /\ Len(self.history) = 1

\* --------------------------------------------------------------- C34
\* The stages the instance has been in include REFERRED_TO_TRIBUNAL.
Referred == \E k \in DOMAIN visited : visited[k] = "REFERRED_TO_TRIBUNAL"

\* The number of stage changes of the run so far.
StageChanges == Len(visited) - 1

C35_AmendmentProcessIsAcyclic ==
    /\ [](cls = "AmendmentProcess"
            => /\ \A i, j \in DOMAIN visited : visited[i] = visited[j] => i = j
               /\ StageChanges <= 7
               /\ StageChanges = 7 => self.stage = "ADOPTED"
               /\ (\A op \in DOMAIN PermittedStages.AmendmentProcess :
                        self.stage \notin PermittedStages.AmendmentProcess[op])
                    => self.stage \in TerminalStages.AmendmentProcess)
    /\ [][ (MethodCall /\ cls = "AmendmentProcess")
            => IF raised' \in {"AmendmentError", "AssertionError"}
               THEN self'.stage = self.stage
               ELSE /\ self'.stage # self.stage
                    /\ \A i \in DOMAIN visited : visited[i] # self'.stage ]_vars

\* The longest run: an amendment adopted after a referendum.
C35_Witness ==
    /\ cls = "AmendmentProcess"
    /\ visited = <<"INITIATED", "FIRST_READING_SEJM", "SEJM_PASSED", "SENATE_PASSED",
                   "REFERENDUM_REQUESTED", "REFERENDUM_PASSED", "PRESIDENT_SIGNS",
                   "ADOPTED">>
    /\ call.op = "complete"
    /\ raised = "none"

\* --------------------------------------------------------------- C36
\* C36: in AmendmentProcess referendum_requested is false after construction,
\* becomes true only in a request_referendum call that returns, and is never
\* set back; in every reachable state a stage of REFERENDUM_REQUESTED or
\* REFERENDUM_PASSED implies referendum_requested, and referendum_requested
\* implies that affected_chapters holds one of the chapters 1, 2, 12.
C36_ReferendumFlagFollowsRequest ==
    /\ [](cls = "AmendmentProcess"
            => /\ self.stage \in {"REFERENDUM_REQUESTED", "REFERENDUM_PASSED"}
                    => self.referendum_requested
               /\ self.referendum_requested
                    => self.affected_chapters \cap ProtectedChapters # {})
    /\ [][ /\ (cls = "None" /\ cls' = "AmendmentProcess")
                => ~self'.referendum_requested
           /\ (MethodCall /\ cls = "AmendmentProcess")
                => /\ self.referendum_requested => self'.referendum_requested
                   /\ (~self.referendum_requested /\ self'.referendum_requested)
                        => /\ call'.op = "request_referendum"
                           /\ raised' = "none"
                           /\ self'.stage = "REFERENDUM_REQUESTED"
                   /\ self'.initiator = self.initiator
                   /\ self'.affected_chapters = self.affected_chapters ]_vars

\* An amendment adopted after a referendum: the flag is still set.
C36_Witness ==
    /\ cls = "AmendmentProcess"
    /\ self.stage = "ADOPTED"
    /\ self.referendum_requested
    /\ self.affected_chapters = {2}

\* --------------------------------------------------------------- C37
\* C37: a tally that meets the ABSOLUTE majority meets the quorum
\* (votes_for * 2 > members implies total_present * 2 >= members): whenever
\* check_majority accepts a tally for ABSOLUTE, check_quorum accepts it too;
\* passes_vote for ABSOLUTE with require_quorum true raises QuorumError only
\* on tallies that check_majority rejects for ABSOLUTE, and returns exactly
\* when check_majority alone does.
C37_AbsoluteImpliesQuorum ==
    /\ (call.op = "check_majority" /\ call.args[2] = "ABSOLUTE" /\ raised = "none")
            => LET vote == call.args[1]
               IN  /\ vote.votes_for * 2 > StatutoryMembers(vote)
                   /\ Present(vote) * 2 >= StatutoryMembers(vote)
                   /\ check_quorum(vote) = "none"
    /\ (call.op = "passes_vote" /\ call.args[2] = "ABSOLUTE" /\ call.args[3])
            => LET vote == call.args[1]
               IN  /\ raised = "QuorumError"
                        => check_majority(vote, "ABSOLUTE") = "MajorityError"
                   /\ (raised = "none") = (check_majority(vote, "ABSOLUTE") = "none")

\* 231 deputies for and nobody else in the chamber: an absolute majority, and
\* with it a quorum.
C37_Witness ==
    /\ call = Call("passes_vote", <<VoteRecord("SEJM", 231, 0, 0), "ABSOLUTE", TRUE>>)
    /\ raised = "none"

\* --------------------------------------------------------------- C38
\* Every vote-bearing operation of the three machines applied, in its
\* permitted stage, to the tally `vote`: the outcome of the call and the stage
\* a passing vote leads to.  The instances are brought to the stage by the
\* calls that lead there, with 307/153/0 in the Sejm and 55/40/5 in the Senate
\* where a vote has to pass on the way and 150/200/80 where it has to fail.
VoteSteps(vote) ==
    LET sejm == VoteRecord("SEJM", 307, 153, 0)
        senate == VoteRecord("SENATE", 55, 40, 5)
        lost == VoteRecord("SEJM", 150, 200, 80)
        bill1 == LP_begin_sejm_deliberation(LegislativeProcess).self
        bill2 == LP_send_to_senate(LP_sejm_vote(bill1, sejm).self).self
        bill3 == LP_senate_amends(bill2, senate).self
        bill4 == LP_president_vetoes(
                    LP_send_to_president(
                        LP_sejm_override_senate(bill3, sejm).self).self).self
        gov1 == GF_president_designates(GovernmentFormation).self
        gov2 == GF_sejm_confidence_first_attempt(gov1, lost).self
        gov3 == GF_sejm_elects_pm(gov2, lost).self
        amendment1 == AP_first_reading(AmendmentProcess("President", {1})).self
        amendment2 == AP_sejm_vote(amendment1, sejm).self
    IN  { [from |-> bill1, ret |-> LP_sejm_vote(bill1, vote), pass |-> "SEJM_PASSED"],
          [from |-> bill2, ret |-> LP_senate_amends(bill2, vote), pass |-> "SENATE_AMENDED"],
          [from |-> bill2, ret |-> LP_senate_rejects(bill2, vote),
           pass |-> "SENATE_REJECTED"],
          [from |-> bill3, ret |-> LP_sejm_override_senate(bill3, vote),
           pass |-> "SEJM_OVERRIDE_VOTE"],
          [from |-> bill4, ret |-> LP_sejm_override_veto(bill4, vote),
           pass |-> "VETO_OVERRIDDEN"],
          [from |-> gov1, ret |-> GF_sejm_confidence_first_attempt(gov1, vote),
           pass |-> "APPOINTED"],
          [from |-> gov2, ret |-> GF_sejm_elects_pm(gov2, vote), pass |-> "APPOINTED"],
          [from |-> gov3, ret |-> GF_president_appoints_third_attempt(gov3, vote),
           pass |-> "APPOINTED"],
          [from |-> amendment1, ret |-> AP_sejm_vote(amendment1, vote),
           pass |-> "SEJM_PASSED"],
          [from |-> amendment2, ret |-> AP_senate_vote(amendment2, vote),
           pass |-> "SENATE_PASSED"] }

\* C38: passes_vote with require_quorum true raises QuorumError or
\* MajorityError for every tally with votes_for = 0, under each of the four
\* majority kinds, although check_majority on its own accepts the empty tally
\* (0 for, 0 against, 0 abstaining) for TWO_THIRDS and THREE_FIFTHS; and no
\* vote-bearing operation of a machine, in its permitted stage, is taken to
\* the stage a passing vote leads to by a tally with votes_for = 0.
C38_NoVotesInFavourNeverPasses ==
    /\ (call.op = "passes_vote" /\ call.args[1].votes_for = 0 /\ call.args[3])
            => /\ raised \in {"QuorumError", "MajorityError"}
               /\ \A step \in VoteSteps(call.args[1]) :
                    /\ step.from.stage \in {"SEJM_DELIBERATION", "SENATE_DELIBERATION",
                                            "SENATE_AMENDED", "VETOED", "CONFIDENCE_VOTE",
                                            "SEJM_ELECTS", "PRESIDENT_APPOINTS_RETRY",
                                            "FIRST_READING_SEJM", "SEJM_PASSED"}
                    /\ step.ret.self.stage # step.pass
    /\ (call.op = "check_majority" /\ Present(call.args[1]) = 0)
            => (raised = "none") = (call.args[2] \in {"TWO_THIRDS", "THREE_FIFTHS"})

\* The empty tally put to a two-thirds vote: two thirds of nobody, and no quorum.
C38_Witness ==
    /\ call = Call("passes_vote", <<VoteRecord("SEJM", 0, 0, 0), "TWO_THIRDS", TRUE>>)
    /\ raised = "QuorumError"

====
